---- MODULE Spec2Model ----
(***************************************************************************)
(* A model of htmldiff2 (src/src/htmldiff2): the atomizer, the outer       *)
(* aligner, the opcode dispatcher of StreamDiffer.process, the emitter     *)
(* (block_processor, mark_text, enter/leave), the inner event differ, the  *)
(* row/cell table differ and the merge pass of get_diff_stream.            *)
(*                                                                         *)
(* Conventions.  An event is a record [t, tag, attrs, txt]: t is "S"       *)
(* (START), "E" (END) or "T" (TEXT); attrs is the ordered sequence of      *)
(* <<name, value>> pairs of a START; txt is the character data of a TEXT,  *)
(* kept as a sequence of one-character strings so that tokenizing,         *)
(* whitespace collapsing and the character ratio can be computed.  The     *)
(* no-break space is the character "nbsp", the line-break marker glyph is  *)
(* "pilcrow".  Positions (always (None,-1,-1) or copied) are left out:     *)
(* no code path reads them.  Ranges are 0-based and half-open as in the    *)
(* Python source; Slice converts to the 1-based SubSeq.                    *)
(***************************************************************************)
EXTENDS Integers, Sequences, FiniteSets, TLC

\* ------------------------------------------------------------- sequences
Slice(s, lo, hi) == SubSeq(s, lo + 1, hi)

Min(a, b) == IF a < b THEN a ELSE b

Max(a, b) == IF a > b THEN a ELSE b

Last(s) == s[Len(s)]

Front(s) == SubSeq(s, 1, Len(s) - 1)

RECURSIVE Flatten(_)
Flatten(ss) == IF ss = <<>> THEN <<>> ELSE Head(ss) \o Flatten(Tail(ss))

\* the method table, defined after the methods (section `method table')
RECURSIVE call(_, _)

\* ---------------------------------------------------------------- events
START == "S"

END == "E"

TEXT == "T"

StartEv(tag, attrs) == [t |-> START, tag |-> tag, attrs |-> attrs, txt |-> <<>>]

EndEv(tag) == [t |-> END, tag |-> tag, attrs |-> <<>>, txt |-> <<>>]

TextEv(s) == [t |-> TEXT, tag |-> "", attrs |-> <<>>, txt |-> s]

\* genshi Attrs.get(name): the value, or "" standing for None (no attribute
\* of the modelled inputs has an empty value)
RECURSIVE attrs_get(_, _)
attrs_get(attrs, name) ==
  IF attrs = <<>> THEN ""
  ELSE IF Head(attrs)[1] = name THEN Head(attrs)[2]
  ELSE attrs_get(Tail(attrs), name)

attrs_has(attrs, name) == \E i \in 1..Len(attrs) : attrs[i][1] = name

\* genshi Attrs.__or__ with one pair: replace in place, or append
attrs_or(attrs, name, value) ==
  IF attrs_has(attrs, name)
  THEN [i \in 1..Len(attrs) |->
          IF attrs[i][1] = name THEN <<name, value>> ELSE attrs[i]]
  ELSE Append(attrs, <<name, value>>)

\* ------------------------------------------------------------ characters
NBSP == "nbsp"

linebreak_marker == "pilcrow"

WhitespaceChars == {" ", "\n", NBSP}

PunctChars == {".", "-", linebreak_marker}

IsSpace(c) == c \in WhitespaceChars

\* str.lower() on the characters of the modelled inputs
Lower(c) == IF c = "A" THEN "a" ELSE IF c = "B" THEN "b" ELSE c

LowerText(s) == [i \in 1..Len(s) |-> Lower(s[i])]

RECURSIVE lstrip(_)
lstrip(s) == IF s # <<>> /\ IsSpace(Head(s)) THEN lstrip(Tail(s)) ELSE s

RECURSIVE rstrip(_)
rstrip(s) == IF s # <<>> /\ IsSpace(Last(s)) THEN rstrip(Front(s)) ELSE s

strip(s) == rstrip(lstrip(s))

\* re.sub(r'\s+', ' ', s): every whitespace run becomes one space
RECURSIVE SquashWs(_)
SquashWs(s) ==
  IF s = <<>> THEN <<>>
  ELSE IF IsSpace(Head(s))
       THEN <<" ">> \o SquashWs(lstrip(s))
       ELSE <<Head(s)>> \o SquashWs(Tail(s))

collapse_ws(s) == strip(SquashWs(s))

\* the concatenated data of the TEXT events
RECURSIVE raw_text_from_events(_)
raw_text_from_events(events) ==
  IF events = <<>> THEN <<>>
  ELSE (IF Head(events).t = TEXT THEN Head(events).txt ELSE <<>>)
       \o raw_text_from_events(Tail(events))

extract_text_from_events(events) ==
  LowerText(collapse_ws(raw_text_from_events(events)))

\* config._token_split_re = (\s+|[^\w\s]+): the class of a character
CharClass(c) ==
  IF c \in WhitespaceChars THEN "s" ELSE IF c \in PunctChars THEN "p" ELSE "w"

\* length of the run of characters of the class of s[1] at the head of s
RECURSIVE RunLen(_, _)
RunLen(s, cls) ==
  IF s = <<>> \/ CharClass(Head(s)) # cls THEN 0 ELSE 1 + RunLen(Tail(s), cls)

\* text_split: the non-empty parts of tokenize_regex.split(text), each part a
\* maximal run of whitespace, of punctuation or of word characters
RECURSIVE text_split(_)
text_split(s) ==
  IF s = <<>> THEN <<>>
  ELSE LET n == RunLen(s, CharClass(Head(s)))
       IN  <<SubSeq(s, 1, n)>> \o text_split(SubSeq(s, n + 1, Len(s)))

\* -------------------------------------------------- difflib.SequenceMatcher
\* The standard-library matcher as the program uses it: isjunk = None, and
\* the autojunk heuristic idle because it needs a second sequence of 200 or
\* more elements.  a and b are sequences of comparable keys.

\* k of find_longest_match: the length of the common run that starts at
\* a[i], b[j] (0-based) and stays inside [.., ahi) x [.., bhi)
RECURSIVE RunAt(_, _, _, _, _, _)
RunAt(a, b, i, j, ahi, bhi) ==
  IF i < ahi /\ j < bhi /\ a[i + 1] = b[j + 1]
  THEN 1 + RunAt(a, b, i + 1, j + 1, ahi, bhi)
  ELSE 0

\* find_longest_match: the longest block; among the longest the one that
\* starts earliest in a, and among those the one that starts earliest in b
\* (the scan takes a candidate only when k > bestsize)
find_longest_match(a, b, alo, ahi, blo, bhi) ==
  LET cells == (alo..(ahi - 1)) \X (blo..(bhi - 1))
      size(c) == RunAt(a, b, c[1], c[2], ahi, bhi)
      best == IF cells = {} THEN 0
              ELSE CHOOSE n \in 0..(ahi - alo) :
                     /\ \A c \in cells : size(c) <= n
                     /\ n > 0 => \E c \in cells : size(c) = n
  IN  IF best = 0 THEN [i |-> alo, j |-> blo, size |-> 0]
      ELSE LET bi == CHOOSE i \in alo..(ahi - 1) :
                       /\ \E j \in blo..(bhi - 1) : size(<<i, j>>) = best
                       /\ \A i2 \in alo..(i - 1) :
                            \A j \in blo..(bhi - 1) : size(<<i2, j>>) # best
               bj == CHOOSE j \in blo..(bhi - 1) :
                       /\ size(<<bi, j>>) = best
                       /\ \A j2 \in blo..(j - 1) : size(<<bi, j2>>) # best
           IN  [i |-> bi, j |-> bj, size |-> best]

\* get_matching_blocks without the final sentinel: the longest match, then
\* the blocks to its left and to its right, in increasing order.  Two blocks
\* are never adjacent here (a block next to a longest match would have been
\* part of it), so the collapsing pass of difflib changes nothing.
RECURSIVE matching_blocks(_, _, _, _, _, _)
matching_blocks(a, b, alo, ahi, blo, bhi) ==
  IF alo >= ahi \/ blo >= bhi THEN <<>>
  ELSE LET m == find_longest_match(a, b, alo, ahi, blo, bhi)
       IN  IF m.size = 0 THEN <<>>
           ELSE matching_blocks(a, b, alo, m.i, blo, m.j)
                \o <<m>>
                \o matching_blocks(a, b, m.i + m.size, ahi, m.j + m.size, bhi)

get_matching_blocks(a, b) ==
  Append(matching_blocks(a, b, 0, Len(a), 0, Len(b)),
         [i |-> Len(a), j |-> Len(b), size |-> 0])

Opcode(tag, i1, i2, j1, j2) ==
  [tag |-> tag, i1 |-> i1, i2 |-> i2, j1 |-> j1, j2 |-> j2]

\* get_opcodes over a given list of matching blocks (sentinel included)
RECURSIVE opcodes_from_blocks(_, _, _)
opcodes_from_blocks(blocks, i, j) ==
  IF blocks = <<>> THEN <<>>
  ELSE LET m == Head(blocks)
           gap == IF i < m.i /\ j < m.j THEN <<Opcode("replace", i, m.i, j, m.j)>>
                  ELSE IF i < m.i THEN <<Opcode("delete", i, m.i, j, m.j)>>
                  ELSE IF j < m.j THEN <<Opcode("insert", i, m.i, j, m.j)>>
                  ELSE <<>>
           eq == IF m.size > 0
                 THEN <<Opcode("equal", m.i, m.i + m.size, m.j, m.j + m.size)>>
                 ELSE <<>>
       IN  gap \o eq \o opcodes_from_blocks(Tail(blocks), m.i + m.size, m.j + m.size)

get_opcodes(a, b) == opcodes_from_blocks(get_matching_blocks(a, b), 0, 0)

RECURSIVE SumSizes(_)
SumSizes(blocks) ==
  IF blocks = <<>> THEN 0 ELSE Head(blocks).size + SumSizes(Tail(blocks))

\* ratio() < num/den, in integers: ratio = 2*M/T, and 1.0 when T = 0
ratio_below(a, b, num, den) ==
  LET T == Len(a) + Len(b)
      M == SumSizes(get_matching_blocks(a, b))
  IN  IF T = 0 THEN den < num ELSE 2 * M * den < num * T

\* ----------------------------------------------------------------- config
INLINE_FORMATTING_TAGS == {"span", "strong", "b", "em", "i", "u"}

BLOCK_WRAPPER_TAGS == {"p", "h1", "h2", "h3", "h4", "h5", "h6"}

STRUCTURAL_TAGS ==
  {"p", "br", "table", "ul", "ol", "li", "tr", "td", "th",
   "h1", "h2", "h3", "h4", "h5", "h6"}

track_attrs == <<"style", "class", "src", "href", "ref", "data-ref">>

visual_container_tags ==
  {"span", "div", "p", "h1", "h2", "h3", "h4", "h5", "h6",
   "strong", "b", "em", "i", "u", "td", "th"}

visual_atomize_tags ==
  {"span", "p", "div", "h1", "h2", "h3", "h4", "h5", "h6",
   "strong", "b", "em", "i", "u"}

wrap_void_tag_changes_with_ins_del == {"img"}

force_event_diff_on_equal_for_tags == {"img"}

diff_id_attr == "data-diff-id"

sequence_match_threshold == 2

\* bulk_replace_similarity_threshold = 0.3, as the fraction 3/10
bulk_threshold_num == 3

bulk_threshold_den == 10

\* ------------------------------------------------------------------ utils
\* the inputs carry no namespace, so the localname is the tag itself
qname_localname(tag) == tag

\* the artificial wrapper <div class="diff">; a class value of the modelled
\* inputs holds one class name
is_diff_wrapper(tag, attrs) ==
  qname_localname(tag) = "div" /\ attrs_get(attrs, "class") = "diff"

attrs_signature(attrs) ==
  LET keys == track_attrs \o <<"id">>
      present(k) == attrs_has(attrs, k)
      pick == SelectSeq(keys, present)
  IN  [i \in 1..Len(pick) |-> <<pick[i], attrs_get(attrs, pick[i])>>]

RECURSIVE structure_signature(_)
structure_signature(events) ==
  IF events = <<>> THEN <<>>
  ELSE (IF Head(events).t = START
           /\ qname_localname(Head(events).tag) \in INLINE_FORMATTING_TAGS
        THEN <<qname_localname(Head(events).tag)>> ELSE <<>>)
       \o structure_signature(Tail(events))

\* concat_events: the events of a slice of atoms
RECURSIVE concat_events(_)
concat_events(atoms) ==
  IF atoms = <<>> THEN <<>> ELSE Head(atoms).events \o concat_events(Tail(atoms))

\* parser.longzip: the items pairwise; when b runs out first, the item of a
\* just read is dropped and the later items of a come with None; when a runs
\* out first, the rest of b comes with None.  A pair is [a, b], each side a
\* sequence of one item, or <<>> for None.
longzip(a, b) ==
  LET n == Min(Len(a), Len(b))
      both == [i \in 1..n |-> [a |-> <<a[i]>>, b |-> <<b[i]>>]]
      rest_a == [i \in 1..(Len(a) - n - 1) |-> [a |-> <<a[n + 1 + i]>>, b |-> <<>>]]
      rest_b == [i \in 1..(Len(b) - n) |-> [a |-> <<>>, b |-> <<b[n + i]>>]]
  IN  both \o (IF Len(a) > n THEN rest_a ELSE rest_b)

\* ----------------------------------------------------------- atomization
\* An alignment key is kept as a record [a, b, c, d] that encodes the Python
\* tuple one to one: ('t', p) -> a = "t", b = p; ('e', type, data) -> a =
\* "e" followed by the type, c = attrs, d = <<tag>>; ('br',) -> a = "br";
\* ('block', text) -> a = "block", b = text; (tag, text, attrs_sig,
\* struct_sig) -> a = tag, b, c, d; ('tr', c0, c1) -> a = "tr", b = c0,
\* d = c1; the two-element ('tr', text) -> a = "tr/2"; (tag, text) ->
\* a = tag, b = text.
Key(a, b, c, d) == [a |-> a, b |-> b, c |-> c, d |-> d]

list_marker_chars == {"-", "*", "+"}

\* _list_marker_re.sub('', text): drop a leading run of list-marker
\* characters when whitespace follows it
strip_list_marker(s) ==
  LET RECURSIVE markers(_)
      markers(r) == IF r # <<>> /\ Head(r) \in list_marker_chars
                    THEN 1 + markers(Tail(r)) ELSE 0
      m == markers(s)
      rest == SubSeq(s, m + 1, Len(s))
  IN  IF m > 0 /\ rest # <<>> /\ IsSpace(Head(rest)) THEN lstrip(rest) ELSE s

\* find_block_end: the index after the END that closes the block opened at
\* start_idx (0-based), counting nested elements of the same name
RECURSIVE block_end_scan(_, _, _, _)
block_end_scan(events, j, depth, tag_name) ==
  IF j >= Len(events) \/ depth = 0 THEN j
  ELSE LET e == events[j + 1]
           d2 == IF e.t = START /\ qname_localname(e.tag) = tag_name THEN depth + 1
                 ELSE IF e.t = END /\ qname_localname(e.tag) = tag_name THEN depth - 1
                 ELSE depth
       IN  block_end_scan(events, j + 1, d2, tag_name)

find_block_end(events, start_idx, tag_name) ==
  block_end_scan(events, start_idx + 1, 1, tag_name)

has_structural_children(block_events) ==
  \E i \in 2..(Len(block_events) - 1) :
    /\ block_events[i].t = START
    /\ qname_localname(block_events[i].tag) \in STRUCTURAL_TAGS

\* _first_n_cell_texts_from_tr_events with n = 2: the collapsed text of the
\* first two direct cells, padded with empty texts.  st = [idx, in_cell,
\* depth, buf, texts, stop]
RECURSIVE cell_texts_scan(_, _)
cell_texts_scan(events, st) ==
  IF events = <<>> \/ st.stop THEN st.texts
  ELSE LET e == Head(events)
           cell == qname_localname(e.tag) \in {"td", "th"}
           st2 ==
             IF e.t = START /\ cell
             THEN IF ~st.in_cell
                  THEN [st EXCEPT !.idx = @ + 1, !.in_cell = TRUE,
                                  !.depth = 1, !.buf = <<>>]
                  ELSE [st EXCEPT !.depth = @ + 1]
             ELSE IF e.t = END /\ st.in_cell /\ cell
             THEN IF st.depth - 1 = 0
                  THEN LET tx == IF st.idx < 2
                                 THEN Append(st.texts, collapse_ws(st.buf))
                                 ELSE st.texts
                       IN  [st EXCEPT !.depth = 0, !.texts = tx,
                                      !.stop = (st.idx < 2 /\ Len(tx) >= 2),
                                      !.in_cell = FALSE]
                  ELSE [st EXCEPT !.depth = @ - 1]
             ELSE IF e.t = TEXT /\ st.in_cell /\ st.idx < 2
             THEN [st EXCEPT !.buf = @ \o e.txt]
             ELSE st
       IN  cell_texts_scan(Tail(events), st2)

first_n_cell_texts_from_tr_events(tr_events) ==
  LET texts == cell_texts_scan(tr_events,
                 [idx |-> -1, in_cell |-> FALSE, depth |-> 0, buf |-> <<>>,
                  texts |-> <<>>, stop |-> FALSE])
  IN  IF Len(texts) = 0 THEN << <<>>, <<>> >>
      ELSE IF Len(texts) = 1 THEN <<texts[1], <<>> >>
      ELSE <<texts[1], texts[2]>>

create_block_atom_key(lname, block_events, attrs) ==
  LET block_text == collapse_ws(extract_text_from_events(block_events))
  IN  IF lname \in {"td", "th"}
      THEN Key(lname, block_text, attrs_signature(attrs),
               structure_signature(block_events))
      ELSE IF lname = "tr"
      THEN LET c == first_n_cell_texts_from_tr_events(block_events)
           IN  IF c[1] # <<>> \/ c[2] # <<>>
               THEN Key("tr", c[1], <<>>, c[2])
               ELSE Key("tr/2", block_text, <<>>, <<>>)
      ELSE IF lname \in {"li", "p", "h1", "h2", "h3", "h4", "h5", "h6"}
      THEN Key("block", strip_list_marker(block_text), <<>>, <<>>)
      ELSE IF lname \in {"ul", "ol"}
      THEN Key(lname, <<>>, <<>>, <<>>)
      ELSE IF lname \in visual_atomize_tags
      THEN Key(lname, block_text, attrs_signature(attrs),
               structure_signature(block_events))
      ELSE Key(lname, block_text, <<>>, <<>>)

\* build_block_tags_set under the default configuration
block_tags ==
  {"li"} \cup {"td", "th", "tr", "table"} \cup {"b", "strong", "i", "em"}
  \cup visual_atomize_tags

Atom(kind, tag, key, events) ==
  [kind |-> kind, tag |-> tag, key |-> key, events |-> events]

TextAtoms(parts) ==
  [i \in 1..Len(parts) |->
     Atom("text", "", Key("t", parts[i], <<>>, <<>>), <<TextEv(parts[i])>>)]

\* atomize_events, from index i (0-based) on
RECURSIVE atomize_from(_, _)
atomize_from(events, i) ==
  IF i >= Len(events) THEN <<>>
  ELSE LET e == events[i + 1]
           lname == qname_localname(e.tag)
           is_br == /\ e.t = START /\ lname = "br" /\ i + 1 < Len(events)
                    /\ events[i + 2].t = END
                    /\ qname_localname(events[i + 2].tag) = "br"
           blockish == /\ e.t = START /\ lname \in block_tags
                       /\ ~is_diff_wrapper(e.tag, e.attrs)
           j == find_block_end(events, i, lname)
           block_events == Slice(events, i, j)
           big_div == lname = "div" /\ has_structural_children(block_events)
           key == IF lname = "div"
                  THEN Key("div", extract_text_from_events(block_events),
                           attrs_signature(e.attrs),
                           structure_signature(block_events))
                  ELSE create_block_atom_key(lname, block_events, e.attrs)
       IN  IF is_br
           THEN <<Atom("br", "", Key("br", <<>>, <<>>, <<>>),
                       <<events[i + 1], events[i + 2]>>)>>
                \o atomize_from(events, i + 2)
           ELSE IF blockish /\ ~big_div
           THEN <<Atom("block", lname, key, block_events)>>
                \o atomize_from(events, j)
           ELSE IF e.t = TEXT /\ e.txt # <<>>
           THEN TextAtoms(text_split(e.txt)) \o atomize_from(events, i + 1)
           ELSE <<Atom("event", "",
                       Key("e" \o e.t, e.txt, e.attrs, <<e.tag>>), <<e>>)>>
                \o atomize_from(events, i + 1)

atomize_events(events) == atomize_from(events, 0)

AtomKeys(atoms) == [i \in 1..Len(atoms) |-> atoms[i].key]

\* ---------------------------------------------------- StreamDiffer state
\* The emitter state of a StreamDiffer is threaded through the operators
\* below as a record d.  None is written "" for a context, a change tag or
\* a diff id.  The format of an id is text_type(counter).
NoCtx == ""

\* StreamDiffer.__init__ (with _result = [] as process() sets it); the id
\* counter is shared with the parent differ when one is given
NewDiffer(id_state) ==
  [result |-> <<>>, stack |-> <<>>, context |-> NoCtx,
   skip_end_for |-> <<>>, wrap_change_end_for |-> <<>>,
   diff_id_state |-> id_state, diff_id_stack |-> <<>>,
   style_del_buffer |-> <<>>]

\* TRUE of every differ state.  Testing it before a recursive call makes the
\* evaluator compute d first, which keeps the evaluation stack shallow.
Ready(d) == d.diff_id_state >= 0

\* _new_diff_id: the state after the increment; the id it returns is cur_id
new_diff_id(d) == [d EXCEPT !.diff_id_state = @ + 1]

cur_id(d) == ToString(d.diff_id_state)

active_diff_id(d) ==
  IF d.diff_id_stack # <<>> THEN Last(d.diff_id_stack) ELSE ""

\* `self._active_diff_id() or self._new_diff_id()`
ActiveOrNew(d) ==
  IF active_diff_id(d) # ""
  THEN [d |-> d, id |-> active_diff_id(d)]
  ELSE [d |-> new_diff_id(d), id |-> cur_id(new_diff_id(d))]

\* _set_attr: drop the attribute if present, then append it
set_attr(attrs, name, value) ==
  LET other(p) == p[1] # name
  IN  Append(SelectSeq(attrs, other), <<name, value>>)

\* _change_attrs(diff_id=...) with add_diff_ids on and no base attrs
change_attrs(d, diff_id) ==
  LET r == IF diff_id # "" THEN [d |-> d, id |-> diff_id] ELSE call("ActiveOrNew", <<d>>)
  IN  [d |-> r.d, attrs |-> set_attr(<<>>, diff_id_attr, r.id)]

inject_class(attrs, classname) ==
  LET cls == attrs_get(attrs, "class")
  IN  attrs_or(attrs, "class",
               IF cls # "" THEN cls \o " " \o classname ELSE classname)

\* inject_refattr: data-old-* for every tracked attribute that changed
RECURSIVE inject_refattr_keys(_, _, _)
inject_refattr_keys(attrs, old_attrs, keys) ==
  IF keys = <<>> THEN attrs
  ELSE LET k == Head(keys)
           old_attr == attrs_get(old_attrs, k)
           new_attr == attrs_get(attrs, k)
           a1 == IF new_attr # "" THEN attrs_or(attrs, k, new_attr) ELSE attrs
           a2 == IF old_attr # "" THEN attrs_or(a1, "data-old-" \o k, old_attr)
                 ELSE a1
       IN  inject_refattr_keys(IF old_attr # new_attr THEN a2 ELSE attrs,
                               old_attrs, Tail(keys))

inject_refattr(attrs, old_attrs) ==
  inject_refattr_keys(attrs, old_attrs, track_attrs)

\* append: into the innermost style buffer when one is open
append(d, e) ==
  IF d.style_del_buffer # <<>>
  THEN [d EXCEPT !.style_del_buffer[Len(d.style_del_buffer)].events =
                   Append(@, e)]
  ELSE [d EXCEPT !.result = Append(@, e)]

\* `for ev in events: self.append(*ev)`
append_all(d, events) ==
  IF events = <<>> THEN d
  ELSE IF d.style_del_buffer # <<>>
  THEN [d EXCEPT !.style_del_buffer[Len(d.style_del_buffer)].events = @ \o events]
  ELSE [d EXCEPT !.result = @ \o events]

enter(d, tag, attrs) ==
  append([d EXCEPT !.stack = Append(@, tag)], StartEv(tag, attrs))

\* leave: [d, ok].  Closing an element whose name is that of the innermost
\* style buffer first emits the buffered events twice, in a del carrying the
\* old style and in an ins, each under an id of its own.
leave(d, tag) ==
  IF d.stack = <<>> \/ tag # Last(d.stack) THEN [d |-> d, ok |-> FALSE]
  ELSE LET flush == d.style_del_buffer # <<>>
                    /\ Last(d.style_del_buffer).tag = tag
           buf == Last(d.style_del_buffer)
           d0 == [d EXCEPT !.style_del_buffer = Front(@)]
           a0 == IF buf.old_style # "" THEN <<<<"style", buf.old_style>>>>
                 ELSE <<>>
           d1 == IF buf.diff_id # "" THEN new_diff_id(d0) ELSE d0
           del_attrs == IF buf.diff_id # ""
                        THEN attrs_or(a0, diff_id_attr, cur_id(d1)) ELSE a0
           d2 == append(append_all(append(d1, StartEv("del", del_attrs)),
                                   buf.events), EndEv("del"))
           d3 == IF buf.diff_id # "" THEN new_diff_id(d2) ELSE d2
           ins_attrs == IF buf.diff_id # ""
                        THEN <<<<diff_id_attr, cur_id(d3)>>>> ELSE <<>>
           d4 == append(append_all(append(d3, StartEv("ins", ins_attrs)),
                                   buf.events), EndEv("ins"))
           d5 == append(IF flush THEN d4 ELSE d, EndEv(tag))
       IN  [d |-> [d5 EXCEPT !.stack = Front(@)], ok |-> TRUE]

\* leave_all: an END for every tag still on the stack, innermost first
RECURSIVE close_stack(_, _)
close_stack(d, stack) ==
  IF stack = <<>> THEN d
  ELSE close_stack(append(d, EndEv(Last(stack))), Front(stack))

leave_all(d) == [close_stack(d, d.stack) EXCEPT !.stack = <<>>]

\* ------------------------------------------------------ text_differ.mark_text
\* _make_ws_visible: leading and trailing whitespace runs and inner runs of
\* two or more spaces become no-break spaces
make_ws_visible(s) ==
  LET lead == Len(s) - Len(lstrip(s))
      trail == Len(s) - Len(rstrip(s))
      inner(i) == /\ s[i] = " "
                  /\ \/ (i > 1 /\ s[i - 1] = " ")
                     \/ (i < Len(s) /\ s[i + 1] = " ")
  IN  [i \in 1..Len(s) |->
         IF i <= lead \/ i > Len(s) - trail \/ inner(i) THEN NBSP ELSE s[i]]

\* mark_text with preserve_whitespace_in_diff on and tag in {ins, del}
mark_text(d, text, tag, diff_id) ==
  LET r == change_attrs(d, diff_id)
  IN  append(append(append(r.d, StartEv(tag, r.attrs)),
                    TextEv(make_ws_visible(text))), EndEv(tag))

\* ---------------------------------------------------------- block_processor
StructuralTags ==
  {"table", "thead", "tbody", "tfoot", "tr", "td", "th", "ul", "ol", "li"}

Ctx(d) == d.context

\* handle_start_event
handle_start_event(d, tag, attrs) ==
  LET lname == qname_localname(tag)
      inctx == Ctx(d) \in {"ins", "del"}
  IN  IF lname = "br" /\ inctx
      THEN IF Ctx(d) = "ins"
           THEN enter(mark_text(d, <<linebreak_marker>>, "ins", ""), tag, attrs)
           ELSE LET r == change_attrs(d, active_diff_id(d))
                    d1 == append(r.d, StartEv("del", r.attrs))
                    d2 == append(d1, TextEv(<<linebreak_marker>>))
                    d3 == append(append(d2, StartEv(tag, attrs)), EndEv(tag))
                    d4 == append(d3, EndEv("del"))
                IN  [d4 EXCEPT !.skip_end_for = Append(@, lname)]
      ELSE IF lname \in StructuralTags /\ inctx
      THEN LET a1 == call("inject_class", <<attrs,
                       "tagdiff_" \o (IF Ctx(d) = "ins" THEN "added" ELSE "deleted")>>)
               r == call("ActiveOrNew", <<d>>)
           IN  enter(r.d, tag, set_attr(a1, diff_id_attr, r.id))
      ELSE IF lname \in BLOCK_WRAPPER_TAGS /\ inctx
      THEN LET change_tag == Ctx(d)
               in_list == /\ d.stack # <<>>
                          /\ qname_localname(Last(d.stack)) \in {"ul", "ol"}
                          /\ lname # "li"
               r == call("ActiveOrNew", <<d>>)
               li_attrs == set_attr(
                             <<<<"class", IF Ctx(d) = "ins" THEN "tagdiff_added"
                                          ELSE "tagdiff_deleted">>>>,
                             diff_id_attr, r.id)
               d1 == IF in_list
                     THEN [append(r.d, StartEv("li", li_attrs))
                             EXCEPT !.wrap_change_end_for =
                                      Append(@, [lname |-> lname, change_tag |-> "li",
                                                 restore_ctx |-> NoCtx])]
                     ELSE d
               c == change_attrs(d1, active_diff_id(d1))
               d2 == enter(append(c.d, StartEv(change_tag, c.attrs)), tag, attrs)
           IN  [d2 EXCEPT !.wrap_change_end_for =
                            Append(@, [lname |-> lname, change_tag |-> change_tag,
                                       restore_ctx |-> Ctx(d)]),
                          !.context = NoCtx]
      ELSE IF lname \in wrap_void_tag_changes_with_ins_del /\ inctx
      THEN LET c == change_attrs(d, active_diff_id(d))
               d2 == enter(append(c.d, StartEv(Ctx(d), c.attrs)), tag, attrs)
           IN  [d2 EXCEPT !.wrap_change_end_for =
                            Append(@, [lname |-> lname, change_tag |-> Ctx(d),
                                       restore_ctx |-> NoCtx])]
      ELSE enter(d, tag, attrs)

\* the while loop of handle_end_event: pop every wrapper entry recorded for
\* this name, leaving the element once
RECURSIVE close_wrappers(_, _, _)
close_wrappers(d, tag, handled_leave) ==
  IF d.wrap_change_end_for = <<>>
     \/ Last(d.wrap_change_end_for).lname # qname_localname(tag)
  THEN d
  ELSE LET w == Last(d.wrap_change_end_for)
           d1 == [d EXCEPT !.wrap_change_end_for = Front(@)]
           d2 == IF handled_leave THEN d1 ELSE call("leave", <<d1, tag>>).d
           d3 == IF w.change_tag # "" THEN append(d2, EndEv(w.change_tag)) ELSE d2
           d4 == IF w.restore_ctx # NoCtx
                 THEN [d3 EXCEPT !.context = w.restore_ctx] ELSE d3
       IN  IF Ready(d4) THEN close_wrappers(d4, tag, TRUE) ELSE d4

handle_end_event(d, tag) ==
  LET lname == qname_localname(tag)
  IN  IF d.skip_end_for # <<>> /\ Last(d.skip_end_for) = lname
      THEN [d EXCEPT !.skip_end_for = Front(@)]
      ELSE IF d.wrap_change_end_for # <<>>
              /\ Last(d.wrap_change_end_for).lname = lname
      THEN close_wrappers(d, tag, FALSE)
      ELSE call("leave", <<d, tag>>).d

handle_text_event(d, data) ==
  IF Ctx(d) # NoCtx /\ (strip(data) # <<>> \/ \A i \in 1..Len(data) : data[i] # "\n")
  THEN mark_text(d, data, Ctx(d), "")
  ELSE append(d, TextEv(data))

\* block_process: the handlers applied to the events in order (the list is
\* split in two halves, which keeps the evaluation shallow)
RECURSIVE block_process(_, _)
block_process(d, events) ==
  IF events = <<>> THEN d
  ELSE IF Len(events) = 1
  THEN LET e == events[1]
       IN  IF e.t = START THEN handle_start_event(d, e.tag, e.attrs)
           ELSE IF e.t = END THEN handle_end_event(d, e.tag)
           ELSE handle_text_event(d, e.txt)
  ELSE LET h == Len(events) \div 2
           d1 == block_process(d, SubSeq(events, 1, h))
       IN  IF Ready(d1) THEN block_process(d1, SubSeq(events, h + 1, Len(events)))
           ELSE d1

\* `with self.context(kind): self.block_process(events)`: the context is
\* restored on exit whatever the handlers left in it
process_in_context(d, kind, events) ==
  [block_process([d EXCEPT !.context = kind], events) EXCEPT !.context = d.context]

\* `with self.diff_group():` entered: a fresh id is pushed
diff_group_enter(d) ==
  LET d1 == new_diff_id(d)
  IN  [d1 EXCEPT !.diff_id_stack = Append(@, cur_id(d1))]

diff_group_exit(d) == [d EXCEPT !.diff_id_stack = Front(@)]

\* ------------------------------------------------------ text_differ.diff_text
\* InsensitiveSequenceMatcher.get_matching_blocks: blocks not longer than
\* min(threshold, min(len(a), len(b)) // 4) are dropped, the sentinel stays
insensitive_matching_blocks(a, b, threshold) ==
  LET size == Min(Len(a), Len(b))
      effective_threshold == Min(threshold, size \div 4)
      keep(m) == m.size > effective_threshold \/ m.size = 0
  IN  SelectSeq(get_matching_blocks(a, b), keep)

insensitive_opcodes(a, b, threshold) ==
  opcodes_from_blocks(insensitive_matching_blocks(a, b, threshold), 0, 0)

\* variant: the del and the ins of a pending pair get an id each
flush_pending_two_ids(st) ==
  LET d1 == new_diff_id(st.d)
      d2 == new_diff_id(mark_text(d1, Flatten(st.pending_del), "del", cur_id(d1)))
      d3 == new_diff_id(st.d)
      cleared(d) == [d |-> d, pending_del |-> <<>>, pending_ins |-> <<>>]
  IN  IF st.pending_del # <<>> /\ st.pending_ins # <<>>
      THEN cleared(mark_text(d2, Flatten(st.pending_ins), "ins", cur_id(d2)))
      ELSE IF st.pending_del # <<>>
      THEN cleared(mark_text(d3, Flatten(st.pending_del), "del", cur_id(d3)))
      ELSE IF st.pending_ins # <<>>
      THEN cleared(mark_text(d3, Flatten(st.pending_ins), "ins", cur_id(d3)))
      ELSE st

\* flush_pending over st = [d, pending_del, pending_ins] (token lists): a
\* pending pair shares one new id, a lone del or ins gets its own
flush_pending(st) ==
  LET d1 == new_diff_id(st.d)
      del == Flatten(st.pending_del)
      ins == Flatten(st.pending_ins)
      cleared(d) == [d |-> d, pending_del |-> <<>>, pending_ins |-> <<>>]
  IN  IF st.pending_del # <<>> /\ st.pending_ins # <<>>
      THEN cleared(mark_text(mark_text(d1, del, "del", cur_id(d1)),
                             ins, "ins", cur_id(d1)))
      ELSE IF st.pending_del # <<>>
      THEN cleared(mark_text(d1, del, "del", cur_id(d1)))
      ELSE IF st.pending_ins # <<>>
      THEN cleared(mark_text(d1, ins, "ins", cur_id(d1)))
      ELSE st

\* length of the common prefix of two texts
RECURSIVE common_len(_, _)
common_len(s, t) ==
  IF s # <<>> /\ t # <<>> /\ Head(s) = Head(t)
  THEN 1 + common_len(Tail(s), Tail(t)) ELSE 0

\* one opcode of the loop of diff_text
diff_text_step(st, op, old, new) ==
  LET old_toks == Slice(old, op.i1, op.i2)
      new_toks == Slice(new, op.j1, op.j2)
      old_part == Flatten(old_toks)
      new_part == Flatten(new_toks)
      no_newline(s) == \A i \in 1..Len(s) : s[i] # "\n"
      spaces_only == /\ old_part # <<>> /\ new_part # <<>>
                     /\ strip(old_part) = <<>> /\ strip(new_part) = <<>>
                     /\ no_newline(old_part) /\ no_newline(new_part)
  IN  IF op.tag = "equal"
      THEN LET f == call("flush_pending", <<st>>)
           IN  [f EXCEPT !.d = append(@, TextEv(old_part))]
      ELSE IF op.tag = "replace" /\ spaces_only
      THEN LET f == call("flush_pending", <<st>>)
               n == common_len(old_part, new_part)
               d1 == IF n > 0 THEN append(f.d, TextEv(SubSeq(new_part, 1, n)))
                     ELSE f.d
               old_rem == SubSeq(old_part, n + 1, Len(old_part))
               new_rem == SubSeq(new_part, n + 1, Len(new_part))
           IN  [d |-> d1,
                pending_del |-> IF old_rem # <<>> THEN <<old_rem>> ELSE <<>>,
                pending_ins |-> IF new_rem # <<>> THEN <<new_rem>> ELSE <<>>]
      ELSE IF op.tag = "replace"
      THEN [st EXCEPT !.pending_del = @ \o old_toks, !.pending_ins = @ \o new_toks]
      ELSE IF op.tag = "delete"
      THEN [st EXCEPT !.pending_del = @ \o old_toks]
      ELSE [st EXCEPT !.pending_ins = @ \o new_toks]

RECURSIVE diff_text_loop(_, _, _, _)
diff_text_loop(st, ops, old, new) ==
  IF ops = <<>> THEN call("flush_pending", <<st>>)
  ELSE LET st1 == call("diff_text_step", <<st, Head(ops), old, new>>)
       IN  IF Ready(st1.d) THEN diff_text_loop(st1, Tail(ops), old, new) ELSE st1

diff_text(d, old_text, new_text) ==
  LET old == text_split(old_text)
      new == text_split(new_text)
  IN  diff_text_loop([d |-> d, pending_del |-> <<>>, pending_ins |-> <<>>],
                     insensitive_opcodes(old, new, sequence_match_threshold),
                     old, new).d

\* ----------------------------------------------------------- visual_replace
IsWsText(e) == e.t = TEXT /\ strip(e.txt) = <<>>

\* strip_edge_whitespace_events: [lws, core, tws]
strip_edge_whitespace_events(events) ==
  LET RECURSIVE lead(_)
      lead(i) == IF i < Len(events) /\ call("IsWsText", <<events[i + 1]>>) THEN lead(i + 1) ELSE i
      i0 == lead(0)
      RECURSIVE trail(_)
      trail(j) == IF j > i0 /\ call("IsWsText", <<events[j]>>) THEN trail(j - 1) ELSE j
      j0 == trail(Len(events))
  IN  [lws |-> Slice(events, 0, i0), core |-> Slice(events, i0, j0),
       tws |-> Slice(events, j0, Len(events))]

has_visual_attrs(attrs) ==
  \E k \in {track_attrs[i] : i \in 1..Len(track_attrs)} \cup {"id"} :
    attrs_get(attrs, k) # ""

longest_common_prefix_len(a, b) == common_len(a, b)

RECURSIVE suffix_scan(_, _, _, _)
suffix_scan(a, b, i, max_len) ==
  IF i < max_len /\ a[Len(a) - i] = b[Len(b) - i]
  THEN suffix_scan(a, b, i + 1, max_len) ELSE i

longest_common_suffix_len(a, b, max_prefix) ==
  suffix_scan(a, b, 0, Min(Len(a) - max_prefix, Len(b) - max_prefix))

\* parse() of try_visual_wrapper_toggle_without_dup: kind is "plain", "wrap"
\* or "" (None)
toggle_parse(events) ==
  LET s == call("strip_edge_whitespace_events", <<events>>)
      core == s.core
      none == [kind |-> "", lws |-> <<>>, inner |-> <<>>, tws |-> <<>>,
               tag |-> "", attrs |-> <<>>]
      inner == Slice(core, 1, Len(core) - 1)
  IN  IF Len(core) = 1 /\ core[1].t = TEXT
      THEN [none EXCEPT !.kind = "plain", !.lws = s.lws, !.inner = core,
                        !.tws = s.tws]
      ELSE IF /\ Len(core) >= 3 /\ core[1].t = START /\ Last(core).t = END
              /\ qname_localname(core[1].tag) \in INLINE_FORMATTING_TAGS
              /\ qname_localname(Last(core).tag) = qname_localname(core[1].tag)
              /\ inner # <<>> /\ \A i \in 1..Len(inner) : inner[i].t = TEXT
      THEN [kind |-> "wrap", lws |-> s.lws, inner |-> inner, tws |-> s.tws,
            tag |-> core[1].tag, attrs |-> core[1].attrs]
      ELSE none

\* try_visual_wrapper_toggle_without_dup: [d, ok]
try_visual_wrapper_toggle_without_dup(d, old_events, new_events) ==
  LET o == call("toggle_parse", <<old_events>>)
      n == call("toggle_parse", <<new_events>>)
      no == [d |-> d, ok |-> FALSE]
      r == call("ActiveOrNew", <<d>>)
  IN  IF o.kind = "" \/ n.kind = "" THEN no
      ELSE IF o.kind = "plain" /\ n.kind = "wrap"
      THEN IF ~has_visual_attrs(n.attrs) THEN no
           ELSE IF collapse_ws(o.inner[1].txt)
                     # collapse_ws(extract_text_from_events(n.inner))
           THEN no
           ELSE LET a1 == call("inject_class", <<n.attrs, "tagdiff_replaced">>)
                    a2 == attrs_or(a1, "data-old-tag", "none")
                    a3 == set_attr(a2, diff_id_attr, r.id)
                    d1 == append_all(r.d, n.lws)
                    d2 == append_all(append(d1, StartEv(n.tag, a3)), n.inner)
                IN  [d |-> append_all(append(d2, EndEv(n.tag)), n.tws), ok |-> TRUE]
      ELSE IF o.kind = "wrap" /\ n.kind = "plain"
      THEN IF ~has_visual_attrs(o.attrs) THEN no
           ELSE IF collapse_ws(extract_text_from_events(o.inner))
                     # collapse_ws(n.inner[1].txt)
           THEN no
           ELSE LET a1 == <<<<"data-old-tag", qname_localname(o.tag)>>>>
                    a2 == call("inject_refattr", <<a1, o.attrs>>)
                    a3 == call("inject_class", <<a2, "tagdiff_replaced">>)
                    a4 == set_attr(a3, diff_id_attr, r.id)
                    d1 == append_all(r.d, n.lws)
                    d2 == append(append(d1, StartEv("span", a4)), n.inner[1])
                IN  [d |-> append_all(append(d2, EndEv("span")), n.tws), ok |-> TRUE]
      ELSE no

\* unwrap() of can_unwrap_wrapper: [tag, txt], tag "" for None
unwrap(events) ==
  IF /\ Len(events) >= 3 /\ events[1].t = START /\ Last(events).t = END
     /\ events[1].tag = Last(events).tag
     /\ qname_localname(events[1].tag) \in INLINE_FORMATTING_TAGS
  THEN [tag |-> qname_localname(events[1].tag),
        txt |-> extract_text_from_events(Slice(events, 1, Len(events) - 1))]
  ELSE [tag |-> "", txt |-> <<>>]

can_unwrap_wrapper(old_events, new_events) ==
  LET o == unwrap(old_events)
      n == unwrap(new_events)
      old_plain == extract_text_from_events(old_events)
      new_plain == extract_text_from_events(new_events)
  IN  \/ o.tag # "" /\ n.tag = "" /\ o.txt # <<>> /\ o.txt = collapse_ws(new_plain)
      \/ n.tag # "" /\ o.tag = "" /\ n.txt # <<>> /\ n.txt = collapse_ws(old_plain)

can_visual_container_replace(old_events0, new_events0) ==
  LET old_events == call("strip_edge_whitespace_events", <<old_events0>>).core
      new_events == call("strip_edge_whitespace_events", <<new_events0>>).core
      old_lname == qname_localname(old_events[1].tag)
      new_lname == qname_localname(new_events[1].tag)
      old_txt == extract_text_from_events(old_events)
      new_txt == extract_text_from_events(new_events)
      keys == {track_attrs[i] : i \in 1..Len(track_attrs)} \cup {"id"}
  IN  /\ old_events # <<>> /\ new_events # <<>>
      /\ old_events[1].t = START /\ Last(old_events).t = END
      /\ new_events[1].t = START /\ Last(new_events).t = END
      /\ old_lname \in visual_container_tags \/ new_lname \in visual_container_tags
      /\ old_txt # <<>> /\ new_txt # <<>>
      /\ collapse_ws(old_txt) = collapse_ws(new_txt)
      /\ \/ structure_signature(old_events) # structure_signature(new_events)
         \/ old_lname # new_lname
         \/ \E k \in keys :
              attrs_get(old_events[1].attrs, k) # attrs_get(new_events[1].attrs, k)

wrap_inline_visual_replace(d, kind, wrapper_tag, attrs, inner_events) ==
  LET c == change_attrs(d, active_diff_id(d))
      d1 == append(append(c.d, StartEv(kind, c.attrs)), StartEv(wrapper_tag, attrs))
      d2 == call("process_in_context", <<d1, NoCtx, inner_events>>)
  IN  append(append(d2, EndEv(wrapper_tag)), EndEv(kind))

\* the loop of wrap_block_visual_replace: a <br> becomes marker text, <br>,
\* </br> and its own END is skipped
RECURSIVE block_visual_inner(_, _, _)
block_visual_inner(d, events, skip_br_end) ==
  IF events = <<>> \/ ~Ready(d) THEN d
  ELSE LET e == Head(events)
       IN  IF skip_br_end > 0 /\ e.t = END /\ qname_localname(e.tag) = "br"
           THEN block_visual_inner(d, Tail(events), skip_br_end - 1)
           ELSE IF e.t = START /\ qname_localname(e.tag) = "br"
           THEN block_visual_inner(
                  append(append(append(d, TextEv(<<linebreak_marker>>)),
                                StartEv(e.tag, e.attrs)), EndEv(e.tag)),
                  Tail(events), skip_br_end + 1)
           ELSE block_visual_inner(append(d, e), Tail(events), skip_br_end)

wrap_block_visual_replace(d, kind, wrapper_tag, attrs, inner_events) ==
  LET d0 == append(d, StartEv(wrapper_tag, attrs))
      c == change_attrs(d0, active_diff_id(d0))
      d1 == append(c.d, StartEv(kind, c.attrs))
      d2 == block_visual_inner(d1, inner_events, 0)
  IN  append(append(d2, EndEv(kind)), EndEv(wrapper_tag))

render_visual_replace_inline(d, old_events0, new_events0) ==
  LET so == call("strip_edge_whitespace_events", <<old_events0>>)
      sn == call("strip_edge_whitespace_events", <<new_events0>>)
      old_events == so.core
      new_events == sn.core
      d0 == append_all(d, sn.lws)
      old_tag == old_events[1].tag
      new_tag == new_events[1].tag
      old_attrs == old_events[1].attrs
      new_attrs == new_events[1].attrs
      old_inner == Slice(old_events, 1, Len(old_events) - 1)
      new_inner == Slice(new_events, 1, Len(new_events) - 1)
      old_l == qname_localname(old_tag)
      new_l == qname_localname(new_tag)
      keeps(l) == l \in INLINE_FORMATTING_TAGS \cup BLOCK_WRAPPER_TAGS \cup {"td", "th"}
      old_wrap == IF keeps(old_l) THEN old_tag ELSE "span"
      new_wrap == IF keeps(new_l) THEN new_tag ELSE "span"
      is_structural == old_l \in {"td", "th"} /\ new_l \in {"td", "th"}
      cell == LET d1 == append(d0, StartEv(new_tag, new_attrs))
                  d2 == call("wrap_inline_visual_replace", <<d1, "del", "span", old_attrs, old_inner>>)
                  d3 == call("wrap_inline_visual_replace", <<d2, "ins", "span", new_attrs, new_inner>>)
              IN  append(d3, EndEv(new_tag))
      other == LET d1 == IF old_l \in BLOCK_WRAPPER_TAGS
                         THEN call("wrap_block_visual_replace", <<d0, "del", old_wrap, old_attrs, old_inner>>)
                         ELSE call("wrap_inline_visual_replace", <<d0, "del", old_wrap, old_attrs, old_inner>>)
               IN  IF new_l \in BLOCK_WRAPPER_TAGS
                   THEN call("wrap_block_visual_replace", <<d1, "ins", new_wrap, new_attrs, new_inner>>)
                   ELSE call("wrap_inline_visual_replace", <<d1, "ins", new_wrap, new_attrs, new_inner>>)
  IN  IF old_events = <<>> \/ new_events = <<>> THEN d0
      ELSE append_all(IF is_structural THEN cell ELSE other, sn.tws)

\* find_inline_wrapper_bounds: [start, end], -1 standing for None
find_inline_wrapper_bounds(events) ==
  LET is_inline_start(i) == /\ events[i + 1].t = START
                            /\ qname_localname(events[i + 1].tag) \in INLINE_FORMATTING_TAGS
      starts == {i \in 0..(Len(events) - 1) : is_inline_start(i)}
      start_idx == CHOOSE i \in starts : \A i2 \in starts : i <= i2
      wname == qname_localname(events[start_idx + 1].tag)
      RECURSIVE scan(_, _)
      scan(j, depth) ==
        IF j >= Len(events) THEN -1
        ELSE LET e == events[j + 1]
                 dp == IF e.t = START /\ qname_localname(e.tag) = wname THEN depth + 1
                       ELSE IF e.t = END /\ qname_localname(e.tag) = wname THEN depth - 1
                       ELSE depth
             IN  IF e.t = END /\ qname_localname(e.tag) = wname /\ dp = 0 THEN j
                 ELSE scan(j + 1, dp)
      end_idx == scan(start_idx, 0)
      none == [start |-> -1, end |-> -1]
  IN  IF starts = {} THEN none
      ELSE IF end_idx = -1 THEN none
      ELSE IF \E i \in starts : i < start_idx \/ i > end_idx THEN none
      ELSE [start |-> start_idx, end |-> end_idx]

validate_prefix_suffix_alignment(prefix_text, suffix_text, old_text, new_text) ==
  LET pre_len == longest_common_prefix_len(old_text, new_text)
      suf_len == longest_common_suffix_len(old_text, new_text, pre_len)
  IN  pre_len = Len(prefix_text) /\ suf_len = Len(suffix_text)

\* try_inline_wrapper_to_plain: [d, ok]
try_inline_wrapper_to_plain(d, old_events, new_events) ==
  LET b == call("find_inline_wrapper_bounds", <<old_events>>)
      prefix_events == Slice(old_events, 0, b.start)
      wrapper_events == Slice(old_events, b.start, b.end + 1)
      suffix_events == Slice(old_events, b.end + 1, Len(old_events))
      old_text == raw_text_from_events(old_events)
      new_text == new_events[1].txt
      prefix_text == raw_text_from_events(prefix_events)
      suffix_text == raw_text_from_events(suffix_events)
      pre_len == longest_common_prefix_len(old_text, new_text)
      suf_len == longest_common_suffix_len(old_text, new_text, pre_len)
      mid_new == Slice(new_text, pre_len, Len(new_text) - suf_len)
      d1 == IF prefix_text # <<>> THEN append(d, TextEv(prefix_text)) ELSE d
      d2 == call("process_in_context", <<d1, "del", wrapper_events>>)
      d3 == IF mid_new # <<>> THEN mark_text(d2, mid_new, "ins", "") ELSE d2
      d4 == IF suffix_text # <<>> THEN append(d3, TextEv(suffix_text)) ELSE d3
      no == [d |-> d, ok |-> FALSE]
  IN  IF Len(new_events) # 1 \/ new_events[1].t # TEXT THEN no
      ELSE IF old_events = <<>> THEN no
      ELSE IF b.start = -1 THEN no
      ELSE IF ~validate_prefix_suffix_alignment(prefix_text, suffix_text,
                                                old_text, new_text)
      THEN no
      ELSE [d |-> d4, ok |-> TRUE]

\* ------------------------------------------- StreamDiffer: replace and friends
\* a Python slice s[lo:hi]: indices past the end are clamped
PySlice(s, lo, hi) == SubSeq(s, Min(lo, Len(s)) + 1, Min(hi, Len(s)))

\* normalize_style_value (utils; the function is not in the source tree, this
\* is section 3.2 of the specification): declarations split on ';', trimmed,
\* property names lower-cased, empties dropped, sorted.  Style values are
\* atomic strings here, so the normal form is tabulated for the spellings the
\* inputs use.
normalize_style_value(v) ==
  IF v \in {"color:red", "color: red", "COLOR:red;"} THEN "color:red"
  ELSE IF v \in {"color:blue", "color: blue"} THEN "color:blue"
  ELSE v

\* delete / insert / unchanged over events[start:end] of the differ
delete(d, old_events, start, end) ==
  call("process_in_context", <<d, "del", PySlice(old_events, start, end)>>)

insert(d, new_events, start, end) ==
  call("process_in_context", <<d, "ins", PySlice(new_events, start, end)>>)

unchanged(d, old_events, start, end) ==
  call("process_in_context", <<d, NoCtx, PySlice(old_events, start, end)>>)

\* variant: the delete and the insert outside any diff group
ungrouped_delete_insert(d, del_events, ins_events) ==
  LET d1 == call("process_in_context", <<d, "del", del_events>>)
  IN  call("process_in_context", <<d1, "ins", ins_events>>)

\* `with self.diff_group(): self.delete(..); self.insert(..)`
grouped_delete_insert(d, del_events, ins_events) ==
  LET g == diff_group_enter(d)
      d1 == call("process_in_context", <<g, "del", del_events>>)
      d2 == call("process_in_context", <<d1, "ins", ins_events>>)
  IN  diff_group_exit(d2)

\* enter_mark_replaced as replace() calls it (old_tag is not passed)
enter_mark_replaced(d, tag, attrs, old_attrs) ==
  LET old_style == attrs_get(old_attrs, "style")
      new_style == attrs_get(attrs, "style")
      covered(a, b) == \A i \in 1..Len(a) :
                         a[i][1] = "style" \/ attrs_get(b, a[i][1]) = a[i][2]
      non_style_match == covered(attrs, old_attrs) /\ covered(old_attrs, attrs)
      r == call("ActiveOrNew", <<d>>)
      buffered ==
        LET a1 == set_attr(attrs, diff_id_attr, r.id)
            d1 == append([r.d EXCEPT !.stack = Append(@, tag)], StartEv(tag, a1))
        IN  [d1 EXCEPT !.style_del_buffer =
                         Append(@, [tag |-> tag, old_style |-> old_style,
                                    events |-> <<>>, diff_id |-> r.id])]
      marked ==
        LET a1 == call("inject_refattr", <<call("inject_class", <<attrs, "tagdiff_replaced">>), old_attrs>>)
            a2 == set_attr(a1, diff_id_attr, r.id)
        IN  append([r.d EXCEPT !.stack = Append(@, tag)], StartEv(tag, a2))
  IN  IF non_style_match
         /\ normalize_style_value(old_style) # normalize_style_value(new_style)
      THEN buffered ELSE marked

\* _handle_matching_event_types
handle_matching_event_types(d, old_event, new_event) ==
  IF old_event.t = START
  THEN call("enter_mark_replaced", <<d, new_event.tag, new_event.attrs, old_event.attrs>>)
  ELSE IF old_event.t = END
  THEN LET r == call("leave", <<d, new_event.tag>>)
       IN  IF r.ok THEN r.d ELSE call("leave", <<d, old_event.tag>>).d
  ELSE call("diff_text", <<d, old_event.txt, new_event.txt>>)

\* _handle_mismatched_event_types: [d, brk]
handle_mismatched_event_types(d, old_events, new_events, old_event, new_event, old_start, old_end, new_start, new_end, idx) ==
  IF old_event.t = TEXT
  THEN LET d1 == mark_text(d, old_event.txt, "del", "")
       IN  [d |-> IF new_event.t = START
                  THEN enter(d1, new_event.tag, new_event.attrs)
                  ELSE call("leave", <<d1, new_event.tag>>).d,
            brk |-> FALSE]
  ELSE IF new_event.t = TEXT
  THEN [d |-> call("grouped_delete_insert", <<d,
                PySlice(old_events, old_start + idx, old_end),
                PySlice(new_events, new_start + idx, new_end)>>),
        brk |-> TRUE]
  ELSE [d |-> d, brk |-> FALSE]

\* _handle_replace_special_cases: [d, ok]
handle_replace_special_cases(d, old, new) ==
  LET r1 == call("try_inline_wrapper_to_plain", <<d, old, new>>)
      r2 == try_visual_wrapper_toggle_without_dup(d, old, new)
      g == diff_group_enter(d)
  IN  IF r1.ok THEN r1
      ELSE IF r2.ok THEN r2
      ELSE IF /\ Len(new) = 1 /\ new[1].t = TEXT
              /\ \E i \in 1..Len(old) : old[i].t \in {START, END}
      THEN [d |-> call("grouped_delete_insert", <<d, old, new>>), ok |-> TRUE]
      ELSE IF can_unwrap_wrapper(old, new)
      THEN [d |-> call("grouped_delete_insert", <<d, old, new>>), ok |-> TRUE]
      ELSE IF can_visual_container_replace(old, new)
      THEN [d |-> diff_group_exit(render_visual_replace_inline(g, old, new)),
            ok |-> TRUE]
      ELSE [d |-> d, ok |-> FALSE]

\* the pairwise loop of replace(), from pair idx on
RECURSIVE replace_pairs(_, _, _, _, _, _, _, _, _)
replace_pairs(d, old_events, new_events, old_start, old_end, new_start, new_end, pairs, idx) ==
  LET old_event == pairs[idx + 1].a[1]
      new_event == pairs[idx + 1].b[1]
      m == call("handle_mismatched_event_types", <<d, old_events, new_events, old_event,
             new_event, old_start, old_end, new_start, new_end, idx>>)
      d1 == IF old_event.t = new_event.t
            THEN call("handle_matching_event_types", <<d, old_event, new_event>>)
            ELSE m.d
  IN  IF idx >= Len(pairs) THEN d
      ELSE IF pairs[idx + 1].a = <<>>
      THEN insert(d, new_events, new_start + idx, new_end + idx)
      ELSE IF pairs[idx + 1].b = <<>>
      THEN delete(d, old_events, old_start + idx, old_end + idx)
      ELSE IF old_event.t # new_event.t /\ m.brk THEN m.d
      ELSE IF Ready(d1)
      THEN replace_pairs(d1, old_events, new_events, old_start, old_end,
                         new_start, new_end, pairs, idx + 1)
      ELSE d1

\* StreamDiffer.replace over the event lists of the differ
replace(d, old_events, new_events, old_start, old_end, new_start, new_end) ==
  LET old == PySlice(old_events, old_start, old_end)
      new == PySlice(new_events, new_start, new_end)
      s == call("handle_replace_special_cases", <<d, old, new>>)
  IN  IF s.ok THEN s.d
      ELSE replace_pairs(d, old_events, new_events, old_start, old_end,
                         new_start, new_end, longzip(old, new), 0)

\* ----------------------------------------------------------- normalization
\* The module normalization.py is not in the source tree; the four functions
\* below follow sections 4.2 and 4.5 of the specification.

\* delete-first: an insert immediately followed by a delete at the same
\* anchor is swapped, so that the deletion is reported first
RECURSIVE normalize_opcodes_for_delete_first(_)
normalize_opcodes_for_delete_first(ops) ==
  IF Len(ops) < 2 THEN ops
  ELSE LET a == ops[1]
           b == ops[2]
       IN  IF a.tag = "insert" /\ b.tag = "delete" /\ a.i1 = b.i1
           THEN <<Opcode("delete", b.i1, b.i2, a.j1, a.j1),
                  Opcode("insert", b.i2, b.i2, a.j1, a.j2)>>
                \o normalize_opcodes_for_delete_first(SubSeq(ops, 3, Len(ops)))
           ELSE <<a>> \o normalize_opcodes_for_delete_first(Tail(ops))

\* wrapper fusion: delete(Start W) followed by insert(Start W') becomes one
\* replace covering both.  The Starts that qualify: the same inline wrapper
\* with different attributes, or (tag_change) two different inline wrappers
fuse_ok(o, n, tag_change) ==
  /\ qname_localname(o.tag) \in INLINE_FORMATTING_TAGS
  /\ IF tag_change
     THEN qname_localname(n.tag) \in INLINE_FORMATTING_TAGS /\ o.tag # n.tag
     ELSE o.tag = n.tag /\ o.attrs # n.attrs

RECURSIVE fuse_wrapper_opcodes(_, _, _, _)
fuse_wrapper_opcodes(ops, old_events, new_events, tag_change) ==
  IF Len(ops) < 2 THEN ops
  ELSE LET a == ops[1]
           b == ops[2]
           single == /\ a.tag = "delete" /\ a.i2 - a.i1 = 1
                     /\ b.tag = "insert" /\ b.j2 - b.j1 = 1
           o == old_events[a.i1 + 1]
           n == new_events[b.j1 + 1]
       IN  IF single /\ o.t = START /\ n.t = START /\ fuse_ok(o, n, tag_change)
           THEN <<Opcode("replace", a.i1, a.i2, b.j1, b.j2)>>
                \o fuse_wrapper_opcodes(SubSeq(ops, 3, Len(ops)), old_events,
                                        new_events, tag_change)
           ELSE <<a>> \o fuse_wrapper_opcodes(Tail(ops), old_events, new_events,
                                              tag_change)

normalize_inline_wrapper_opcodes(ops, old_events, new_events) ==
  fuse_wrapper_opcodes(ops, old_events, new_events, FALSE)

normalize_inline_wrapper_tag_change_opcodes(ops, old_events, new_events) ==
  fuse_wrapper_opcodes(ops, old_events, new_events, TRUE)

\* visual-replace-on-container: both slices are one container element, the
\* collapsed text is the same and only the tag or the attributes differ
should_force_visual_replace(old_events, new_events) ==
  /\ can_visual_container_replace(old_events, new_events)
  /\ structure_signature(old_events) = structure_signature(new_events)
  /\ LET o == call("strip_edge_whitespace_events", <<old_events>>).core
         n == call("strip_edge_whitespace_events", <<new_events>>).core
     IN  /\ find_block_end(o, 0, qname_localname(o[1].tag)) = Len(o)
         /\ find_block_end(n, 0, qname_localname(n[1].tag)) = Len(n)

\* the three opcode normalizers in the order both differs apply them
normalize_opcodes(ops, old_events, new_events) ==
  normalize_inline_wrapper_tag_change_opcodes(
    normalize_inline_wrapper_opcodes(
      normalize_opcodes_for_delete_first(ops), old_events, new_events),
    old_events, new_events)

\* ------------------------------------------------- event_differ._EventDiffer
\* _handle_table_cell_wrapper_pattern: [d, ok]
handle_table_cell_wrapper_pattern(d, old_events, new_events, opcodes, k) ==
  LET o1 == opcodes[k + 1]
      o2 == opcodes[k + 2]
      o3 == opcodes[k + 3]
      old_start_ev == old_events[o1.i1 + 1]
      old_text_ev == old_events[o2.i1 + 1]
      new_text_ev == new_events[o2.j1 + 1]
      new_start_ev == new_events[o1.j1 + 1]
      wrappers == {j \in (o1.j1 + 1)..(o1.j2 - 1) :
                     /\ new_events[j + 1].t = START
                     /\ qname_localname(new_events[j + 1].tag) \in INLINE_FORMATTING_TAGS
                     /\ has_visual_attrs(new_events[j + 1].attrs)}
      wrapper_idx == CHOOSE j \in wrappers : \A j2 \in wrappers : j2 <= j
      wrapper == new_events[wrapper_idx + 1]
      end_ev == new_events[o3.j1 + 1]
      d1 == call("enter_mark_replaced", <<d, new_start_ev.tag, new_start_ev.attrs,
                                old_start_ev.attrs>>)
      d2 == append_all(d1, Slice(new_events, o1.j1 + 1, wrapper_idx))
      r == call("ActiveOrNew", <<d2>>)
      w_attrs2 == set_attr(attrs_or(call("inject_class", <<wrapper.attrs, "tagdiff_replaced">>),
                                    "data-old-tag", "none"),
                           diff_id_attr, r.id)
      d3 == enter(r.d, wrapper.tag, w_attrs2)
      d4 == append(d3, TextEv(old_text_ev.txt))
      d5 == call("leave", <<d4, end_ev.tag>>).d
      d6 == append_all(d5, Slice(new_events, o3.j1 + 1, o3.j2))
      no == [d |-> d, ok |-> FALSE]
  IN  IF k + 2 >= Len(opcodes) THEN no
      ELSE IF ~(/\ o1.tag = "replace" /\ o2.tag = "equal" /\ o3.tag = "insert"
                /\ o1.i2 - o1.i1 = 1 /\ o2.i2 - o2.i1 = 1 /\ o2.j2 - o2.j1 = 1
                /\ o1.j2 - o1.j1 >= 2)
      THEN no
      ELSE IF ~(old_start_ev.t = START /\ old_text_ev.t = TEXT /\ new_text_ev.t = TEXT)
      THEN no
      ELSE IF new_start_ev.t # START THEN no
      ELSE IF qname_localname(new_start_ev.tag) \notin {"th", "td"} THEN no
      ELSE IF wrappers = {} \/ o3.j2 - o3.j1 < 1 THEN no
      ELSE IF ~(end_ev.t = END
                /\ qname_localname(end_ev.tag) = qname_localname(wrapper.tag))
      THEN no
      ELSE IF collapse_ws(old_text_ev.txt) # collapse_ws(new_text_ev.txt) THEN no
      ELSE [d |-> d6, ok |-> TRUE]

\* the while loop of process_events, from opcode k (0-based) on
RECURSIVE process_events_loop(_, _, _, _, _)
process_events_loop(d, old_events, new_events, opcodes, k) ==
  IF k >= Len(opcodes) THEN d
  ELSE LET p == call("handle_table_cell_wrapper_pattern", <<d, old_events, new_events,
                                                  opcodes, k>>)
           op == opcodes[k + 1]
           d1 == IF op.tag = "replace"
                 THEN call("replace", <<d, old_events, new_events, op.i1, op.i2, op.j1, op.j2>>)
                 ELSE IF op.tag = "delete"
                 THEN diff_group_exit(
                        delete(diff_group_enter(d), old_events, op.i1, op.i2))
                 ELSE IF op.tag = "insert"
                 THEN diff_group_exit(
                        insert(diff_group_enter(d), new_events, op.j1, op.j2))
                 ELSE unchanged(d, old_events, op.i1, op.i2)
           d2 == IF p.ok THEN p.d ELSE d1
       IN  IF Ready(d2)
           THEN process_events_loop(d2, old_events, new_events, opcodes,
                                    IF p.ok THEN k + 3 ELSE k + 1)
           ELSE d2

\* _EventDiffer(old_events, new_events, config, diff_id_state).process_events:
\* the differ after the run; its result is what get_diff_events returns and
\* its id counter is the shared one
process_events(old_events, new_events, id_state) ==
  LET d == NewDiffer(id_state)
      opcodes == normalize_opcodes(call("get_opcodes", <<old_events, new_events>>),
                                   old_events, new_events)
  IN  IF should_force_visual_replace(old_events, new_events)
      THEN leave_all(call("replace", <<d, old_events, new_events,
                             0, Len(old_events), 0, Len(new_events)>>))
      ELSE leave_all(process_events_loop(d, old_events, new_events, opcodes, 0))

\* `inner = _EventDiffer(...); for ev in inner.get_diff_events(): append(ev)`
run_event_differ(d, old_events, new_events) ==
  LET inner == call("process_events", <<old_events, new_events, d.diff_id_state>>)
  IN  append_all([d EXCEPT !.diff_id_state = inner.diff_id_state], inner.result)

\* ------------------------------------------------------------ table_differ
\* a dict of attributes with style values normalized, as a set of pairs
NormAttrs(attrs) ==
  {<<attrs[i][1], IF attrs[i][1] = "style" THEN normalize_style_value(attrs[i][2])
                  ELSE attrs[i][2]>> : i \in 1..Len(attrs)}

attrs_equal_normalized(attrs1, attrs2) == NormAttrs(attrs1) = NormAttrs(attrs2)

\* _normalize_event of _diff_cell_pair
normalize_event(e) == IF e.t = START THEN [e EXCEPT !.attrs = NormAttrs(@)] ELSE e

normalized_events(events) == [i \in 1..Len(events) |-> normalize_event(events[i])]

\* events_equal_normalized (utils; not in the source tree): the two lists
\* are equal event by event once attribute order is ignored and style values
\* are normalized (section 3.2 of the specification)
events_equal_normalized(old_events, new_events) ==
  /\ Len(old_events) = Len(new_events)
  /\ \A i \in 1..Len(old_events) :
       normalize_event(old_events[i]) = normalize_event(new_events[i])

\* the blocks of the direct children of events (index 0-based) whose
\* localname is in names: [tag, events, attrs] each
RECURSIVE extract_blocks(_, _, _)
extract_blocks(events, i, names) ==
  IF i >= Len(events) THEN <<>>
  ELSE LET e == events[i + 1]
           lname == qname_localname(e.tag)
           j == find_block_end(events, i, lname)
       IN  IF e.t = START /\ lname \in names
           THEN <<[tag |-> lname, events |-> Slice(events, i, j), attrs |-> e.attrs]>>
                \o extract_blocks(events, j, names)
           ELSE extract_blocks(events, i + 1, names)

extract_direct_tr_cells(tr_events) == extract_blocks(tr_events, 0, {"td", "th"})

extract_tr_blocks(table_events) ==
  LET b == extract_blocks(table_events, 0, {"tr"})
  IN  [i \in 1..Len(b) |-> b[i].events]

cell_txt(c) == collapse_ws(extract_text_from_events(c.events))

row_key(tr_events) ==
  LET cells == extract_direct_tr_cells(tr_events)
  IN  <<IF Len(cells) > 0 THEN cell_txt(cells[1]) ELSE <<>>,
        IF Len(cells) > 1 THEN cell_txt(cells[2]) ELSE <<>> >>

\* _align_key of diff_tr_by_cells
align_key(cell) == <<cell.tag, cell_txt(cell)>>

AlignKeys(cells) == [i \in 1..Len(cells) |-> align_key(cells[i])]

\* the score of best_single_delete_index for index k: matches of the prefix
\* old[:k] with new[:k] plus matches of old[k+1:] with new[k:]
delete_score(oldk, newk, k) ==
  Cardinality({i0 \in 0..(Min(k, Len(newk)) - 1) : oldk[i0 + 1] = newk[i0 + 1]})
  + Cardinality({i0 \in k..(Len(newk) - 1) : oldk[i0 + 2] = newk[i0 + 1]})

\* the scan of best_single_delete_index: a later index wins only with a
\* strictly greater score
RECURSIVE delete_index_scan(_, _, _, _, _)
delete_index_scan(oldk, newk, k, best_k, best_score) ==
  IF k >= Len(oldk) THEN best_k
  ELSE LET score == delete_score(oldk, newk, k)
       IN  IF score > best_score
           THEN delete_index_scan(oldk, newk, k + 1, k, score)
           ELSE delete_index_scan(oldk, newk, k + 1, best_k, best_score)

\* best_single_delete_index with `score >= best_score' for `score >
\* best_score': the last index of the best score wins instead of the first
RECURSIVE delete_index_scan_last(_, _, _, _, _)
delete_index_scan_last(oldk, newk, k, best_k, best_score) ==
  IF k >= Len(oldk) THEN best_k
  ELSE LET score == delete_score(oldk, newk, k)
       IN  IF score >= best_score
           THEN delete_index_scan_last(oldk, newk, k + 1, k, score)
           ELSE delete_index_scan_last(oldk, newk, k + 1, best_k, best_score)

best_single_delete_index_last(oldk, newk) ==
  delete_index_scan_last(oldk, newk, 0, 0, -1)

best_single_delete_index(oldk, newk) == delete_index_scan(oldk, newk, 0, 0, -1)

insert_score(oldk, newk, k) ==
  Cardinality({i0 \in 0..(Min(k, Len(oldk)) - 1) : oldk[i0 + 1] = newk[i0 + 1]})
  + Cardinality({i0 \in k..(Len(oldk) - 1) : oldk[i0 + 1] = newk[i0 + 2]})

RECURSIVE insert_index_scan(_, _, _, _, _)
insert_index_scan(oldk, newk, k, best_k, best_score) ==
  IF k >= Len(newk) THEN best_k
  ELSE LET score == insert_score(oldk, newk, k)
       IN  IF score > best_score
           THEN insert_index_scan(oldk, newk, k + 1, k, score)
           ELSE insert_index_scan(oldk, newk, k + 1, best_k, best_score)

best_single_insert_index(oldk, newk) == insert_index_scan(oldk, newk, 0, 0, -1)

\* the declarations of a style value of the inputs, as <<property, value>>
\* pairs (the parse loops of _merge_inherited_style)
style_props(v) ==
  IF v \in {"color:red", "color: red", "COLOR:red;"} THEN <<<<"color", "red">>>>
  ELSE IF v \in {"color:blue", "color: blue"} THEN <<<<"color", "blue">>>>
  ELSE <<>>

_INHERITABLE_PROPS == {"font-family", "font-size", "font-style", "font-weight", "color"}

\* _merge_inherited_style: inheritable properties of the old table style
\* that the del style lacks are added; the result is re-serialized as
\* 'k: v' joined by '; ' (one property at most with these inputs)
merge_inherited_style(del_style_val, table_old_style) ==
  LET table_props == style_props(table_old_style)
      del_props == style_props(del_style_val)
      has(props, k) == \E i \in 1..Len(props) : props[i][1] = k
      missing(p) == p[1] \in _INHERITABLE_PROPS /\ ~has(del_props, p[1])
      merged == del_props \o SelectSeq(table_props, missing)
  IN  IF table_old_style = "" THEN del_style_val
      ELSE IF merged = del_props THEN del_style_val
      ELSE merged[1][1] \o ": " \o merged[1][2]

\* <del attrs>content</del> appended verbatim (no block_process)
emit_change(d, kind, attrs, content) ==
  append(append_all(append(d, StartEv(kind, attrs)), content), EndEv(kind))

style_attr(v) == IF v # "" THEN <<<<"style", v>>>> ELSE <<>>

\* the two style branches of _diff_cell_pair: the cell Start under a new id,
\* then, inside a diff group, del(old content) and ins(new content), each
\* with a new id of its own
cell_style_change(d, old_events, new_events, del_style) ==
  LET d1 == new_diff_id(d)
      cell_attrs == set_attr(new_events[1].attrs, diff_id_attr, cur_id(d1))
      d2 == append(d1, StartEv(new_events[1].tag, cell_attrs))
      g == diff_group_enter(d2)
      d3 == new_diff_id(g)
      d4 == emit_change(d3, "del",
              attrs_or(style_attr(del_style), diff_id_attr, cur_id(d3)),
              Slice(old_events, 1, Len(old_events) - 1))
      d5 == new_diff_id(d4)
      d6 == emit_change(d5, "ins", <<<<diff_id_attr, cur_id(d5)>>>>,
              Slice(new_events, 1, Len(new_events) - 1))
  IN  append(diff_group_exit(d6), Last(new_events))

\* the text-differs branch of _diff_cell_pair: one cell, the new wrapper,
\* del(old content) if there is any and ins(new content) if there is any
cell_text_change(d, old_events, new_events, same_attrs, table_old_style) ==
  LET old_content == Slice(old_events, 1, Len(old_events) - 1)
      new_content == IF Len(new_events) > 2
                     THEN Slice(new_events, 1, Len(new_events) - 1) ELSE <<>>
      d1 == append(d, StartEv(new_events[1].tag, new_events[1].attrs))
      g == diff_group_enter(d1)
      old_style_val ==
        IF ~same_attrs
        THEN merge_inherited_style(attrs_get(old_events[1].attrs, "style"),
                                   table_old_style)
        ELSE IF table_old_style # ""
        THEN merge_inherited_style("", table_old_style)
        ELSE ""
      d2 == new_diff_id(g)
      d3 == IF old_content # <<>>
            THEN emit_change(d2, "del",
                   attrs_or(style_attr(old_style_val), diff_id_attr, cur_id(d2)),
                   old_content)
            ELSE g
      d4 == new_diff_id(d3)
      d5 == IF new_content # <<>>
            THEN emit_change(d4, "ins", <<<<diff_id_attr, cur_id(d4)>>>>, new_content)
            ELSE d3
  IN  append(diff_group_exit(d5), Last(new_events))

\* _diff_cell_pair as it would be without the single-cell branches: the old
\* cell deleted and the new cell inserted, two cells for one
diff_cell_pair_two_cells(d, old_cell, new_cell, table_old_style) ==
  call("grouped_delete_insert", <<d, old_cell.events, new_cell.events>>)

\* _diff_cell_pair(old_cell, new_cell)
diff_cell_pair(d, old_cell, new_cell, table_old_style) ==
  LET old_events == old_cell.events
      new_events == new_cell.events
      old_attrs == old_events[1].attrs
      new_attrs == IF new_events # <<>> /\ new_events[1].t = START
                   THEN new_events[1].attrs ELSE old_attrs
      same_text == align_key(old_cell) = align_key(new_cell)
      same_attrs == attrs_equal_normalized(old_attrs, new_attrs)
  IN  IF old_events = <<>> \/ old_events[1].t # START \/ Last(old_events).t # END
      THEN call("grouped_delete_insert", <<d, old_events, new_events>>)
      ELSE IF same_text /\ same_attrs
      THEN IF table_old_style # ""
           THEN cell_style_change(d, old_events, new_events, table_old_style)
           ELSE IF normalized_events(old_events) = normalized_events(new_events)
           THEN append_all(d, new_events)
           ELSE run_event_differ(d, old_events, new_events)
      ELSE IF same_text
      THEN cell_style_change(d, old_events, new_events,
             merge_inherited_style(attrs_get(old_attrs, "style"), table_old_style))
      ELSE cell_text_change(d, old_events, new_events, same_attrs, table_old_style)

\* `with differ.diff_group(): with differ.context(kind): block_process(events)`
grouped_block(d, kind, events) ==
  diff_group_exit(call("process_in_context", <<diff_group_enter(d), kind, events>>))

\* Which of the three cell alignments diff_tr_by_cells takes
tr_mode(old_cells, new_cells) ==
  IF Len(old_cells) = Len(new_cells) + 1 THEN "single_delete"
  ELSE IF Len(new_cells) = Len(old_cells) + 1 THEN "single_insert"
  ELSE "walk"

\* The index the single-column branches choose (0 for the greedy walk)
tr_index(old_cells, new_cells) ==
  IF tr_mode(old_cells, new_cells) = "single_delete"
  THEN best_single_delete_index(AlignKeys(old_cells), AlignKeys(new_cells))
  ELSE IF tr_mode(old_cells, new_cells) = "single_insert"
  THEN best_single_insert_index(AlignKeys(old_cells), AlignKeys(new_cells))
  ELSE 0

\* The cell loops are run one cell step at a time over w = [d, i, j]: i old
\* cells and j new cells are consumed.  tr_done tells when the loops are over.
tr_done(w, old_cells, new_cells) ==
  LET mode == tr_mode(old_cells, new_cells)
  IN  IF mode = "single_delete" THEN w.i >= Len(old_cells)
      ELSE IF mode = "single_insert" THEN w.j >= Len(new_cells)
      ELSE ~(w.i < Len(old_cells) \/ w.j < Len(new_cells))

\* one step of the single-column removal branch: cells before k are paired
\* in place, old[k] is deleted, cells after k pair with new shifted by one
single_delete_step(w, old_cells, new_cells, k, table_old_style) ==
  IF w.i < k
  THEN IF w.i < Len(new_cells)
       THEN [d |-> call("diff_cell_pair", <<w.d, old_cells[w.i + 1], new_cells[w.i + 1],
                                  table_old_style>>),
             i |-> w.i + 1, j |-> w.j + 1]
       ELSE [w EXCEPT !.d = call("grouped_block", <<@, "del", old_cells[w.i + 1].events>>),
                      !.i = @ + 1]
  ELSE IF w.i = k
  THEN [w EXCEPT !.d = call("grouped_block", <<@, "del", old_cells[k + 1].events>>),
                 !.i = @ + 1]
  ELSE [d |-> call("diff_cell_pair", <<w.d, old_cells[w.i + 1], new_cells[w.i],
                             table_old_style>>),
        i |-> w.i + 1, j |-> w.j + 1]

\* one step of the single-column addition branch
single_insert_step(w, old_cells, new_cells, k, table_old_style) ==
  IF w.j < k
  THEN IF w.j < Len(old_cells)
       THEN [d |-> call("diff_cell_pair", <<w.d, old_cells[w.j + 1], new_cells[w.j + 1],
                                  table_old_style>>),
             i |-> w.i + 1, j |-> w.j + 1]
       ELSE [w EXCEPT !.d = call("grouped_block", <<@, "ins", new_cells[w.j + 1].events>>),
                      !.j = @ + 1]
  ELSE IF w.j = k
  THEN [w EXCEPT !.d = call("grouped_block", <<@, "ins", new_cells[k + 1].events>>),
                 !.j = @ + 1]
  ELSE [d |-> call("diff_cell_pair", <<w.d, old_cells[w.j], new_cells[w.j + 1],
                             table_old_style>>),
        i |-> w.i + 1, j |-> w.j + 1]

\* which branch an iteration of the greedy walk takes
walk_branch(w, old_cells, new_cells) ==
  LET has_old == w.i < Len(old_cells)
      has_new == w.j < Len(new_cells)
      old_remaining == Len(old_cells) - w.i
      new_remaining == Len(new_cells) - w.j
  IN  IF has_old /\ has_new
         /\ align_key(old_cells[w.i + 1]) = align_key(new_cells[w.j + 1])
      THEN "same"
      ELSE IF has_old /\ old_remaining > new_remaining THEN "delete"
      ELSE IF has_new /\ new_remaining > old_remaining THEN "insert"
      ELSE IF has_old /\ has_new THEN "pair"
      ELSE "fallback"

\* one iteration of the greedy walk
walk_step(w, old_cells, new_cells, table_old_style) ==
  LET b == walk_branch(w, old_cells, new_cells)
      d1 == IF w.i < Len(old_cells)
            THEN call("grouped_block", <<w.d, "del", old_cells[w.i + 1].events>>) ELSE w.d
      d2 == IF w.j < Len(new_cells)
            THEN call("grouped_block", <<d1, "ins", new_cells[w.j + 1].events>>) ELSE d1
  IN  IF b \in {"same", "pair"}
      THEN [d |-> call("diff_cell_pair", <<w.d, old_cells[w.i + 1], new_cells[w.j + 1],
                                 table_old_style>>),
            i |-> w.i + 1, j |-> w.j + 1]
      ELSE IF b = "delete"
      THEN [w EXCEPT !.d = call("grouped_block", <<@, "del", old_cells[w.i + 1].events>>),
                     !.i = @ + 1]
      ELSE IF b = "insert"
      THEN [w EXCEPT !.d = call("grouped_block", <<@, "ins", new_cells[w.j + 1].events>>),
                     !.j = @ + 1]
      ELSE [d |-> d2,
            i |-> IF w.i < Len(old_cells) THEN w.i + 1 ELSE w.i,
            j |-> IF w.j < Len(new_cells) THEN w.j + 1 ELSE w.j]

tr_step(w, old_cells, new_cells, table_old_style) ==
  LET mode == tr_mode(old_cells, new_cells)
      k == tr_index(old_cells, new_cells)
  IN  IF mode = "single_delete"
      THEN single_delete_step(w, old_cells, new_cells, k, table_old_style)
      ELSE IF mode = "single_insert"
      THEN single_insert_step(w, old_cells, new_cells, k, table_old_style)
      ELSE walk_step(w, old_cells, new_cells, table_old_style)

\* the branch tr_step takes
tr_branch(w, old_cells, new_cells) ==
  IF tr_mode(old_cells, new_cells) = "walk"
  THEN walk_branch(w, old_cells, new_cells)
  ELSE tr_mode(old_cells, new_cells)

RECURSIVE tr_run(_, _, _, _)
tr_run(w, old_cells, new_cells, table_old_style) ==
  IF tr_done(w, old_cells, new_cells) THEN w.d
  ELSE LET w1 == call("tr_step", <<w, old_cells, new_cells, table_old_style>>)
       IN  IF Ready(w1.d) THEN tr_run(w1, old_cells, new_cells, table_old_style)
           ELSE w1.d

\* diff_tr_by_cells(differ, old_tr_events, new_tr_events, table_old_style)
diff_tr_by_cells(d, old_tr_events, new_tr_events, table_old_style) ==
  LET old_cells == extract_direct_tr_cells(old_tr_events)
      new_cells == extract_direct_tr_cells(new_tr_events)
      d1 == append(d, old_tr_events[1])
      d2 == tr_run([d |-> d1, i |-> 0, j |-> 0], old_cells, new_cells,
                   table_old_style)
  IN  IF old_tr_events = <<>> \/ new_tr_events = <<>>
      THEN run_event_differ(d, old_tr_events, new_tr_events)
      ELSE append(d2, Last(old_tr_events))

\* rows old_rows[i1+k] / new_rows[j1+k], k < n, diffed pairwise by cells
RECURSIVE diff_row_pairs(_, _, _, _, _, _, _, _)
diff_row_pairs(d, old_rows, new_rows, i1, j1, k, n, table_old_style) ==
  IF k >= n THEN d
  ELSE LET d1 == call("diff_tr_by_cells", <<d, old_rows[i1 + k + 1], new_rows[j1 + k + 1],
                                  table_old_style>>)
       IN  IF Ready(d1)
           THEN call("diff_row_pairs", <<d1, old_rows, new_rows, i1, j1, k + 1, n,
                               table_old_style>>)
           ELSE d1

\* one opcode of the row alignment
table_row_opcode(d, old_rows, new_rows, op, table_old_style) ==
  LET n == Min(op.i2 - op.i1, op.j2 - op.j1)
      paired == call("diff_row_pairs", <<d, old_rows, new_rows, op.i1, op.j1, 0, n,
                               table_old_style>>)
      d1 == IF op.i2 - op.i1 > n
            THEN call("grouped_block", <<paired, "del",
                               Flatten(Slice(old_rows, op.i1 + n, op.i2))>>)
            ELSE paired
      d2 == IF op.j2 - op.j1 > n
            THEN call("grouped_block", <<d1, "ins", Flatten(Slice(new_rows, op.j1 + n, op.j2))>>)
            ELSE d1
  IN  IF op.tag = "equal" THEN paired
      ELSE IF op.tag = "delete"
      THEN call("grouped_block", <<d, "del", Flatten(Slice(old_rows, op.i1, op.i2))>>)
      ELSE IF op.tag = "insert"
      THEN call("grouped_block", <<d, "ins", Flatten(Slice(new_rows, op.j1, op.j2))>>)
      ELSE d2

RECURSIVE table_row_opcodes(_, _, _, _, _)
table_row_opcodes(d, old_rows, new_rows, ops, table_old_style) ==
  IF ops = <<>> THEN d
  ELSE LET d1 == table_row_opcode(d, old_rows, new_rows, Head(ops), table_old_style)
       IN  IF Ready(d1)
           THEN table_row_opcodes(d1, old_rows, new_rows, Tail(ops), table_old_style)
           ELSE d1

\* diff_table_by_rows(differ, old_table_events, new_table_events)
diff_table_by_rows(d, old_table_events, new_table_events) ==
  LET old_table_start == old_table_events[1]
      new_table_start == new_table_events[1]
      both_start == old_table_start.t = START /\ new_table_start.t = START
      old_attrs == old_table_start.attrs
      table_attrs_changed ==
        both_start /\ ~attrs_equal_normalized(old_attrs, new_table_start.attrs)
      old_table_style == IF table_attrs_changed THEN attrs_get(old_attrs, "style")
                         ELSE ""
      n1 == new_diff_id(d)
      del_attrs == <<<<"class", "structural-revert-data">>,
                     <<"style", "display:none">>, <<diff_id_attr, cur_id(n1)>> >>
      new_attrs_out ==
        set_attr(call("inject_refattr", <<call("inject_class", <<new_table_start.attrs, "tagdiff_added">>),
                                old_attrs>>),
                 diff_id_attr, cur_id(n1))
      d1 == IF table_attrs_changed
            THEN append(emit_change(n1, "del", del_attrs, old_table_events),
                        StartEv(new_table_start.tag, new_attrs_out))
            ELSE append(d, new_table_start)
      old_rows == call("extract_tr_blocks", <<old_table_events>>)
      new_rows == call("extract_tr_blocks", <<new_table_events>>)
      old_keys == [i \in 1..Len(old_rows) |-> call("row_key", <<old_rows[i]>>)]
      new_keys == [i \in 1..Len(new_rows) |-> call("row_key", <<new_rows[i]>>)]
      d2 == table_row_opcodes(d1, old_rows, new_rows,
                              call("get_opcodes", <<old_keys, new_keys>>), old_table_style)
  IN  IF old_table_events = <<>> \/ new_table_events = <<>>
      THEN run_event_differ(d, old_table_events, new_table_events)
      ELSE append(d2, Last(new_table_events))

\* --------------------------------------------- StreamDiffer: opcode handlers
\* _has_structural_tags of _process_replace_opcode
has_structural_tags(events) ==
  \E i \in 1..Len(events) :
    /\ events[i].t = START
    /\ qname_localname(events[i].tag) \in {"ul", "ol", "li", "table", "tr", "td", "th"}

single_block_pair(old_atoms_slice, new_atoms_slice, tag) ==
  /\ Len(old_atoms_slice) = 1 /\ Len(new_atoms_slice) = 1
  /\ old_atoms_slice[1].kind = "block" /\ new_atoms_slice[1].kind = "block"
  /\ old_atoms_slice[1].tag = tag /\ new_atoms_slice[1].tag = tag

\* _process_replace_opcode(old_atoms_slice, new_atoms_slice)
process_replace_opcode(d, old_atoms_slice, new_atoms_slice) ==
  LET old_events == concat_events(old_atoms_slice)
      new_events == concat_events(new_atoms_slice)
      is_pure_style_structural ==
        /\ Len(old_atoms_slice) = Len(new_atoms_slice)
        /\ \A i \in 1..Len(old_atoms_slice) :
             /\ old_atoms_slice[i].kind = "block"
             /\ new_atoms_slice[i].kind = "block"
             /\ old_atoms_slice[i].tag = new_atoms_slice[i].tag
  IN  IF single_block_pair(old_atoms_slice, new_atoms_slice, "tr")
      THEN call("diff_tr_by_cells", <<d, old_atoms_slice[1].events,
                            new_atoms_slice[1].events, "">>)
      ELSE IF single_block_pair(old_atoms_slice, new_atoms_slice, "table")
      THEN call("diff_table_by_rows", <<d, old_atoms_slice[1].events,
                              new_atoms_slice[1].events>>)
      ELSE IF (has_structural_tags(old_events) \/ has_structural_tags(new_events))
              /\ ~is_pure_style_structural
      THEN call("grouped_delete_insert", <<d, old_events, new_events>>)
      ELSE run_event_differ(d, old_events, new_events)

\* ---------------------------------------------------- diff_inline_formatting
\* extract_text_spans: every non-empty TEXT with the inline wrappers open
\* around it and its character range
RECURSIVE text_spans_scan(_, _, _, _)
text_spans_scan(events, formatting_stack, char_pos, spans) ==
  IF events = <<>> THEN spans
  ELSE LET e == Head(events)
           lname == qname_localname(e.tag)
           inline == lname \in INLINE_FORMATTING_TAGS
           hits == {j \in 1..Len(formatting_stack) :
                      qname_localname(formatting_stack[j][1]) = lname}
           top == CHOOSE j \in hits : \A j2 \in hits : j2 <= j
           popped == SubSeq(formatting_stack, 1, top - 1)
                     \o SubSeq(formatting_stack, top + 1, Len(formatting_stack))
       IN  IF e.t = START
           THEN text_spans_scan(Tail(events),
                  IF inline THEN Append(formatting_stack, <<e.tag, e.attrs>>)
                  ELSE formatting_stack, char_pos, spans)
           ELSE IF e.t = END
           THEN text_spans_scan(Tail(events),
                  IF inline /\ hits # {} THEN popped ELSE formatting_stack,
                  char_pos, spans)
           ELSE IF e.txt # <<>>
           THEN text_spans_scan(Tail(events), formatting_stack,
                  char_pos + Len(e.txt),
                  Append(spans, [text |-> e.txt, formatting |-> formatting_stack,
                                 start_char |-> char_pos,
                                 end_char |-> char_pos + Len(e.txt)]))
           ELSE text_spans_scan(Tail(events), formatting_stack, char_pos, spans)

extract_text_spans(events) == text_spans_scan(events, <<>>, 0, <<>>)

\* the first span that covers character position pos: its index, or 0
span_at_pos(spans, pos) ==
  LET hits == {i \in 1..Len(spans) :
                 spans[i].start_char <= pos /\ pos < spans[i].end_char}
  IN  IF hits = {} THEN 0 ELSE CHOOSE i \in hits : \A i2 \in hits : i <= i2

find_formatting_at_pos(spans, pos) ==
  IF span_at_pos(spans, pos) = 0 THEN <<>>
  ELSE spans[span_at_pos(spans, pos)].formatting

fmt_names(formatting) ==
  [i \in 1..Len(formatting) |-> qname_localname(formatting[i][1])]

\* emit_text_with_formatting: a change marker takes a new id of its own
emit_text_with_formatting(d, text, formatting, change_tag) ==
  LET d0 == IF change_tag # "" THEN new_diff_id(d) ELSE d
      d1 == IF change_tag # ""
            THEN append(d0, StartEv(change_tag,
                                    set_attr(<<>>, diff_id_attr, cur_id(d0))))
            ELSE d0
      opens == [i \in 1..Len(formatting) |->
                  StartEv(formatting[i][1], formatting[i][2])]
      closes == [i \in 1..Len(formatting) |->
                   EndEv(formatting[Len(formatting) + 1 - i][1])]
      d2 == append_all(d1, opens \o <<TextEv(text)>> \o closes)
  IN  IF text = <<>> THEN d
      ELSE IF change_tag # "" THEN append(d2, EndEv(change_tag)) ELSE d2

\* the body of the loop over new_spans of diff_inline_formatting
inline_span_step(d, span, old_spans) ==
  LET o == span_at_pos(old_spans, span.start_char)
      old_fmt == find_formatting_at_pos(old_spans, span.start_char)
      overlap_end == Min(old_spans[o].end_char, span.end_char)
      old_text_at_pos ==
        IF o = 0 \/ span.start_char >= overlap_end THEN <<>>
        ELSE Slice(old_spans[o].text, span.start_char - old_spans[o].start_char,
                   overlap_end - old_spans[o].start_char)
      g0 == diff_group_enter(d)
      g1 == emit_text_with_formatting(g0,
              IF old_text_at_pos # <<>> THEN old_text_at_pos ELSE span.text,
              old_fmt, "del")
      g2 == emit_text_with_formatting(g1, span.text, span.formatting, "ins")
  IN  IF fmt_names(old_fmt) = fmt_names(span.formatting)
      THEN emit_text_with_formatting(d, span.text, span.formatting, "")
      ELSE diff_group_exit(g2)

RECURSIVE inline_spans_loop(_, _, _)
inline_spans_loop(d, new_spans, old_spans) ==
  IF new_spans = <<>> THEN d
  ELSE LET d1 == call("inline_span_step", <<d, Head(new_spans), old_spans>>)
       IN  IF Ready(d1) THEN inline_spans_loop(d1, Tail(new_spans), old_spans)
           ELSE d1

RECURSIVE spans_text(_)
spans_text(spans) ==
  IF spans = <<>> THEN <<>> ELSE Head(spans).text \o spans_text(Tail(spans))

\* variant: the container is entered before the texts are compared
diff_inline_formatting_enter_first(d, old_events, new_events) ==
  LET children(ev) ==
        IF Len(ev) > 2 /\ ev[1].t = START /\ ev[Len(ev)].t = END
        THEN Slice(ev, 1, Len(ev) - 1) ELSE ev
      old_spans == call("extract_text_spans", <<children(old_events)>>)
      new_spans == call("extract_text_spans", <<children(new_events)>>)
      d1 == IF Len(new_events) > 2 /\ new_events[1].t = START
            THEN enter(d, new_events[1].tag, new_events[1].attrs) ELSE d
      d2 == inline_spans_loop(d1, new_spans, old_spans)
      d3 == IF Len(new_events) > 2 /\ new_events[Len(new_events)].t = END
            THEN call("leave", <<d2, new_events[Len(new_events)].tag>>).d ELSE d2
  IN  IF collapse_ws(spans_text(old_spans)) # collapse_ws(spans_text(new_spans))
      THEN [d |-> d1, ok |-> FALSE]
      ELSE [d |-> d3, ok |-> TRUE]

\* diff_inline_formatting: [d, ok]
diff_inline_formatting(d, old_events, new_events) ==
  LET children(ev) ==
        IF Len(ev) > 2 /\ ev[1].t = START /\ ev[Len(ev)].t = END
        THEN Slice(ev, 1, Len(ev) - 1) ELSE ev
      old_spans == call("extract_text_spans", <<children(old_events)>>)
      new_spans == call("extract_text_spans", <<children(new_events)>>)
      d1 == IF Len(new_events) > 2 /\ new_events[1].t = START
            THEN enter(d, new_events[1].tag, new_events[1].attrs) ELSE d
      d2 == inline_spans_loop(d1, new_spans, old_spans)
      d3 == IF Len(new_events) > 2 /\ new_events[Len(new_events)].t = END
            THEN call("leave", <<d2, new_events[Len(new_events)].tag>>).d ELSE d2
  IN  IF collapse_ws(spans_text(old_spans)) # collapse_ws(spans_text(new_spans))
      THEN [d |-> d, ok |-> FALSE]
      ELSE [d |-> d3, ok |-> TRUE]

\* ------------------------------------------ StreamDiffer._process_equal_opcode
is_container(events) ==
  events # <<>> /\ events[1].t = START /\ events[Len(events)].t = END

\* enter the new container, diff the children with an inner differ, leave
inner_children_diff(d, old_events, new_events) ==
  LET d1 == enter(d, new_events[1].tag, new_events[1].attrs)
      d2 == run_event_differ(d1, Slice(old_events, 1, Len(old_events) - 1),
                             Slice(new_events, 1, Len(new_events) - 1))
  IN  call("leave", <<d2, new_events[Len(new_events)].tag>>).d

has_force_tag(events) ==
  \E i \in 1..Len(events) :
    /\ events[i].t = START
    /\ qname_localname(events[i].tag) \in force_event_diff_on_equal_for_tags

\* _visible_ws with preserve_whitespace_in_diff on
visible_ws(s) ==
  [i \in 1..Len(s) |->
     IF IsSpace(s[i]) /\ s[i] \notin {"\n", "\r"} THEN NBSP ELSE s[i]]

\* _split_text_then_force_tail: [ok, lead, has_text, text, tail]
split_text_then_force_tail(children) ==
  LET RECURSIVE lead(_)
      lead(i) == IF i < Len(children) /\ call("IsWsText", <<children[i + 1]>>)
                 THEN lead(i + 1) ELSE i
      i0 == lead(0)
      tail == Slice(children, i0 + 1, Len(children))
      tail_ok == \A k \in 1..Len(tail) :
                   IF tail[k].t = TEXT THEN strip(tail[k].txt) = <<>>
                   ELSE qname_localname(tail[k].tag)
                          \in force_event_diff_on_equal_for_tags
      none == [ok |-> FALSE, lead |-> <<>>, has_text |-> FALSE,
               text |-> <<>>, tail |-> <<>>]
  IN  IF i0 >= Len(children)
      THEN [ok |-> TRUE, lead |-> Slice(children, 0, i0), has_text |-> FALSE,
            text |-> <<>>, tail |-> <<>>]
      ELSE IF children[i0 + 1].t # TEXT \/ ~tail_ok THEN none
      ELSE [ok |-> TRUE, lead |-> Slice(children, 0, i0), has_text |-> TRUE,
            text |-> children[i0 + 1].txt, tail |-> tail]

\* the container branch of the force-tag case: common text stays unchanged,
\* only the tail of void elements is marked
force_tail_diff(d, old_events, new_events) ==
  LET old_children == Slice(old_events, 1, Len(old_events) - 1)
      new_children == Slice(new_events, 1, Len(new_events) - 1)
      po == call("split_text_then_force_tail", <<old_children>>)
      pn == call("split_text_then_force_tail", <<new_children>>)
      old_text == po.text
      new_text == pn.text
      pre_len == longest_common_prefix_len(old_text, new_text)
      suf_len == longest_common_suffix_len(old_text, new_text, pre_len)
      old_mid == Slice(old_text, pre_len, Len(old_text) - suf_len)
      new_mid == Slice(new_text, pre_len, Len(new_text) - suf_len)
      common == Slice(old_text, 0, pre_len)
                \o Slice(old_text, Len(old_text) - suf_len, Len(old_text))
      d0 == enter(d, new_events[1].tag, new_events[1].attrs)
      d1 == append(append_all(d0, pn.lead), TextEv(common))
      has_old == old_mid # <<>> \/ po.tail # <<>>
      has_new == new_mid # <<>> \/ pn.tail # <<>>
      marked(kind, mid, tail) ==
        LET c == change_attrs(d1, active_diff_id(d1))
            m1 == append(c.d, StartEv(kind, c.attrs))
            m2 == IF mid # <<>> THEN append(m1, TextEv(visible_ws(mid))) ELSE m1
        IN  append(append_all(m2, tail), EndEv(kind))
      d2 == IF has_old /\ ~has_new THEN marked("del", old_mid, po.tail)
            ELSE IF has_new /\ ~has_old THEN marked("ins", new_mid, pn.tail)
            ELSE run_event_differ(d1, old_children, new_children)
      simple == /\ po.ok /\ pn.ok /\ po.has_text /\ pn.has_text
                /\ collapse_ws(old_text) = collapse_ws(new_text)
      d3 == IF simple THEN d2
            ELSE run_event_differ(d0, old_children, new_children)
  IN  call("leave", <<d3, new_events[Len(new_events)].tag>>).d

\* the non-structural branch of _process_equal_opcode for one pair of atoms
equal_plain_pair(d, old_events, new_events) ==
  LET neq == ~events_equal_normalized(old_events, new_events)
      both == is_container(old_events) /\ is_container(new_events)
      sig_diff == structure_signature(old_events) # structure_signature(new_events)
      raw_diff == raw_text_from_events(old_events) # raw_text_from_events(new_events)
      dif == diff_inline_formatting(d, old_events, new_events)
      ws_only ==
        /\ Len(old_events) = 3 /\ Len(new_events) = 3
        /\ old_events[1].t = START /\ new_events[1].t = START
        /\ old_events[2].t = TEXT /\ new_events[2].t = TEXT
        /\ old_events[3].t = END /\ new_events[3].t = END
        /\ old_events[1].tag = new_events[1].tag
        /\ old_events[3].tag = new_events[3].tag
        /\ old_events[2].txt # new_events[2].txt
        /\ collapse_ws(old_events[2].txt) = collapse_ws(new_events[2].txt)
      same_container ==
        /\ both
        /\ old_events[1].tag = new_events[1].tag
        /\ old_events[Len(old_events)].tag = new_events[Len(new_events)].tag
  IN  IF neq /\ can_visual_container_replace(old_events, new_events)
      THEN IF sig_diff /\ dif.ok THEN dif.d
           ELSE IF (sig_diff \/ raw_diff) /\ both
           THEN inner_children_diff(d, old_events, new_events)
           ELSE diff_group_exit(
                  render_visual_replace_inline(diff_group_enter(d),
                                               old_events, new_events))
      ELSE IF neq /\ ws_only THEN run_event_differ(d, old_events, new_events)
      ELSE IF neq /\ raw_diff /\ both
      THEN inner_children_diff(d, old_events, new_events)
      ELSE IF neq /\ (has_force_tag(old_events) \/ has_force_tag(new_events))
      THEN IF same_container THEN force_tail_diff(d, old_events, new_events)
           ELSE run_event_differ(d, old_events, new_events)
      ELSE call("process_in_context", <<d, NoCtx, new_events>>)

\* the body of the loop of _process_equal_opcode for two atoms
equal_pair(d, a_old, a_new) ==
  LET old_t == a_old.tag
      new_t == a_new.tag
      is_structural == a_new.kind = "block"
                       /\ a_new.tag \in {"table", "tr", "td", "th", "ul", "ol", "li"}
  IN  IF (old_t = "p" /\ new_t = "li") \/ (old_t = "li" /\ new_t = "p")
      THEN run_event_differ(d, a_old.events, a_new.events)
      ELSE IF a_new.kind = "block" /\ a_old.kind = "block"
              /\ a_old.events[1].tag # a_new.events[1].tag
      THEN call("grouped_delete_insert", <<d, a_old.events, a_new.events>>)
      ELSE IF is_structural /\ a_new.tag = "tr"
      THEN call("diff_tr_by_cells", <<d, a_old.events, a_new.events, "">>)
      ELSE IF is_structural /\ a_new.tag = "table"
      THEN call("diff_table_by_rows", <<d, a_old.events, a_new.events>>)
      ELSE IF is_structural
      THEN run_event_differ(d, a_old.events, a_new.events)
      ELSE equal_plain_pair(d, a_old.events, a_new.events)

\* the loop of _process_equal_opcode over the pairs of longzip: an unpaired
\* atom is emitted unchanged
RECURSIVE equal_pairs(_, _)
equal_pairs(d, pairs) ==
  IF pairs = <<>> THEN d
  ELSE LET p == Head(pairs)
           d1 == IF p.a = <<>> THEN call("process_in_context", <<d, NoCtx, p.b[1].events>>)
                 ELSE IF p.b = <<>> THEN call("process_in_context", <<d, NoCtx, p.a[1].events>>)
                 ELSE call("equal_pair", <<d, p.a[1], p.b[1]>>)
       IN  IF Ready(d1) THEN equal_pairs(d1, Tail(pairs)) ELSE d1

process_equal_opcode(d, old_atoms_slice, new_atoms_slice) ==
  equal_pairs(d, longzip(old_atoms_slice, new_atoms_slice))

\* ------------------------------------- StreamDiffer.process: list detectors
\* the first atom of atoms[lo:hi] that is a lone START of ol/ul: its index
\* (0-based), or -1
list_start_index(atoms, lo, hi) ==
  LET hits == {n \in lo..(hi - 1) :
                 /\ Len(atoms[n + 1].events) = 1
                 /\ atoms[n + 1].events[1].t = START
                 /\ qname_localname(atoms[n + 1].events[1].tag) \in {"ol", "ul"}}
  IN  IF hits = {} THEN -1 ELSE CHOOSE n \in hits : \A n2 \in hits : n <= n2

\* an atom of atoms[lo:hi] is a lone END of list_tag
list_end_in(atoms, lo, hi, list_tag) ==
  \E n \in lo..(hi - 1) :
    /\ Len(atoms[n + 1].events) = 1
    /\ atoms[n + 1].events[1].t = END
    /\ qname_localname(atoms[n + 1].events[1].tag) = list_tag

is_block(a, tag) == a.kind = "block" /\ a.tag = tag

blocks_of(atoms, lo, hi) ==
  LET blk(a) == a.kind = "block"
  IN  SelectSeq(Slice(atoms, lo, hi), blk)

\* the look-ahead of the forward detector (old p / text against new li /
\* text): [found, ranges, scan_k]
RECURSIVE forward_scan(_, _, _, _, _, _)
forward_scan(opcodes, scan_k, ranges, old_atoms, new_atoms, list_tag) ==
  IF scan_k >= Len(opcodes)
  THEN [found |-> FALSE, ranges |-> ranges, scan_k |-> scan_k]
  ELSE LET s == opcodes[scan_k + 1]
           olds == Slice(old_atoms, s.i1, s.i2)
           news == Slice(new_atoms, s.j1, s.j2)
           is_end(a) == /\ a.kind = "event" /\ Len(a.events) = 1
                        /\ a.events[1].t = END
                        /\ qname_localname(a.events[1].tag) = list_tag
           all_p_to_li ==
             /\ \A n \in 1..Len(olds) : olds[n].kind = "text" \/ is_block(olds[n], "p")
             /\ \A n \in 1..Len(news) :
                  news[n].kind = "text" \/ is_block(news[n], "li") \/ is_end(news[n])
           has_block == \/ \E n \in 1..Len(olds) : is_block(olds[n], "p")
                        \/ \E n \in 1..Len(news) : is_block(news[n], "li")
           text_only == /\ \A n \in 1..Len(olds) : olds[n].kind = "text"
                        /\ \A n \in 1..Len(news) : news[n].kind = "text"
           end_ev_in_range == \E n \in 1..Len(news) : is_end(news[n])
           stop == [found |-> FALSE, ranges |-> ranges, scan_k |-> scan_k]
       IN  IF s.tag \in {"equal", "replace"}
           THEN IF all_p_to_li /\ (has_block \/ text_only)
                THEN IF end_ev_in_range
                     THEN [found |-> TRUE, ranges |-> Append(ranges, s),
                           scan_k |-> scan_k + 1]
                     ELSE call("forward_scan", <<opcodes, scan_k + 1, Append(ranges, s),
                                       old_atoms, new_atoms, list_tag>>)
                ELSE stop
           ELSE IF s.tag = "insert"
           THEN IF list_end_in(new_atoms, s.j1, s.j2, list_tag) /\ ranges # <<>>
                THEN [found |-> TRUE, ranges |-> ranges, scan_k |-> scan_k + 1]
                ELSE stop
           ELSE call("forward_scan", <<opcodes, scan_k + 1, Append(ranges, s),
                             old_atoms, new_atoms, list_tag>>)

RECURSIVE ranges_old_blocks(_, _)
ranges_old_blocks(ranges, old_atoms) ==
  IF ranges = <<>> THEN <<>>
  ELSE blocks_of(old_atoms, Head(ranges).i1, Head(ranges).i2)
       \o ranges_old_blocks(Tail(ranges), old_atoms)

RECURSIVE ranges_new_blocks(_, _)
ranges_new_blocks(ranges, new_atoms) ==
  IF ranges = <<>> THEN <<>>
  ELSE blocks_of(new_atoms, Head(ranges).j1, Head(ranges).j2)
       \o ranges_new_blocks(Tail(ranges), new_atoms)

\* ''.join(e[1] for e in evs if e[0] == TEXT).strip()
li_text(evs) == strip(raw_text_from_events(evs))

inner_events(evs) == Slice(evs, 1, Len(evs) - 1)

\* the nested `with self.diff_group():` of a list item whose content is shown
\* as del(old) + ins(new): the group id, then one new id for each marker
li_del_ins(d, del_style, old_inner, new_inner) ==
  LET g == diff_group_enter(d)
      d1 == new_diff_id(g)
      d2 == emit_change(d1, "del",
                        attrs_or(style_attr(del_style), diff_id_attr, cur_id(d1)),
                        old_inner)
      d3 == new_diff_id(d2)
      d4 == emit_change(d3, "ins", <<<<diff_id_attr, cur_id(d3)>>>>, new_inner)
  IN  diff_group_exit(d4)

revert_attrs(diff_id) ==
  <<<<"class", "structural-revert-data">>, <<"style", "display:none">>,
    <<diff_id_attr, diff_id>>>>

\* old_li_by_text.get(new_txt): the events of the last old atom that is a li
\* with that text, or <<>>
old_li_by_text(old_p_atoms, new_txt) ==
  LET hits == {n \in 1..Len(old_p_atoms) :
                 /\ old_p_atoms[n].events # <<>>
                 /\ old_p_atoms[n].events[1].t = START
                 /\ qname_localname(old_p_atoms[n].events[1].tag) = "li"
                 /\ li_text(old_p_atoms[n].events) = new_txt}
  IN  IF hits = {} THEN <<>>
      ELSE old_p_atoms[CHOOSE n \in hits : \A n2 \in hits : n2 <= n].events

\* one <li class="diff-bullet-ins"> of the forward detector
forward_li(d, li_evs, old_p_atoms, diff_id) ==
  LET old_li_evs == call("old_li_by_text", <<old_p_atoms, li_text(li_evs)>>)
      a0 == call("inject_class", <<li_evs[1].attrs, "diff-bullet-ins">>)
      a1 == IF old_li_evs # <<>> THEN call("inject_refattr", <<a0, old_li_evs[1].attrs>>) ELSE a0
      li_style_changed == old_li_evs # <<>> /\ old_li_evs[1].attrs # li_evs[1].attrs
      d1 == enter(d, li_evs[1].tag, set_attr(a1, diff_id_attr, diff_id))
      d2 == IF li_style_changed
            THEN li_del_ins(d1, attrs_get(old_li_evs[1].attrs, "style"),
                            inner_events(old_li_evs), inner_events(li_evs))
            ELSE IF old_li_evs # <<>> /\ inner_events(old_li_evs) # inner_events(li_evs)
            THEN run_event_differ(d1, inner_events(old_li_evs), inner_events(li_evs))
            ELSE append_all(d1, inner_events(li_evs))
  IN  call("leave", <<d2, li_evs[Len(li_evs)].tag>>).d

RECURSIVE forward_lis(_, _, _, _)
forward_lis(d, new_li_atoms, old_p_atoms, diff_id) ==
  IF new_li_atoms = <<>> THEN d
  ELSE LET d1 == call("forward_li", <<d, Head(new_li_atoms).events, old_p_atoms, diff_id>>)
       IN  IF Ready(d1) THEN forward_lis(d1, Tail(new_li_atoms), old_p_atoms, diff_id)
           ELSE d1

\* the emission of the forward detector: the hidden revert payload, the list
\* marked added, its items, all under one id
forward_emit(d, list_start_ev, old_p_atoms, new_li_atoms) ==
  LET g == new_diff_id(diff_group_enter(d))
      diff_id == cur_id(g)
      d1 == emit_change(g, "del", revert_attrs(diff_id), concat_events(old_p_atoms))
      list_attrs == set_attr(call("inject_class", <<list_start_ev.attrs, "tagdiff_added">>),
                             diff_id_attr, diff_id)
      d2 == enter(d1, list_start_ev.tag, list_attrs)
      d3 == forward_lis(d2, new_li_atoms, old_p_atoms, diff_id)
  IN  diff_group_exit(call("leave", <<d3, list_start_ev.tag>>).d)

\* the look-ahead of the reverse detector (old li / text against new p /
\* text, closed by a delete or replace that holds the END of the list):
\* [found, ranges, scan_k]
RECURSIVE reverse_scan(_, _, _, _, _, _)
reverse_scan(opcodes, scan_k, ranges, old_atoms, new_atoms, list_tag) ==
  IF scan_k >= Len(opcodes)
  THEN [found |-> FALSE, ranges |-> ranges, scan_k |-> scan_k]
  ELSE LET s == opcodes[scan_k + 1]
           olds == Slice(old_atoms, s.i1, s.i2)
           news == Slice(new_atoms, s.j1, s.j2)
           all_li_to_p ==
             /\ \A n \in 1..Len(olds) : olds[n].kind = "text" \/ is_block(olds[n], "li")
             /\ \A n \in 1..Len(news) : news[n].kind = "text" \/ is_block(news[n], "p")
           has_block == \/ \E n \in 1..Len(olds) : is_block(olds[n], "li")
                        \/ \E n \in 1..Len(news) : is_block(news[n], "p")
       IN  IF s.tag = "equal" /\ all_li_to_p /\ has_block
           THEN call("reverse_scan", <<opcodes, scan_k + 1, Append(ranges, s),
                             old_atoms, new_atoms, list_tag>>)
           ELSE [found |-> /\ s.tag \in {"delete", "replace"}
                           /\ list_end_in(old_atoms, s.i1, s.i2, list_tag)
                           /\ ranges # <<>>,
                 ranges |-> ranges, scan_k |-> scan_k]

\* one <li class="diff-bullet-del"> of the reverse detector
reverse_li(d, li_evs, diff_id) ==
  LET li_attrs == set_attr(call("inject_class", <<li_evs[1].attrs, "diff-bullet-del">>),
                           diff_id_attr, diff_id)
      d1 == append_all(enter(d, li_evs[1].tag, li_attrs), inner_events(li_evs))
  IN  call("leave", <<d1, li_evs[Len(li_evs)].tag>>).d

RECURSIVE reverse_lis(_, _, _)
reverse_lis(d, old_li_atoms, diff_id) ==
  IF old_li_atoms = <<>> THEN d
  ELSE LET d1 == reverse_li(d, Head(old_li_atoms).events, diff_id)
       IN  IF Ready(d1) THEN reverse_lis(d1, Tail(old_li_atoms), diff_id) ELSE d1

\* the emission of the reverse detector: the list marked deleted, its items,
\* then the hidden payload with the new paragraphs
reverse_emit(d, list_start_ev, list_tag, old_li_atoms, new_p_atoms) ==
  LET g == new_diff_id(diff_group_enter(d))
      diff_id == cur_id(g)
      list_attrs == set_attr(call("inject_class", <<list_start_ev.attrs, "tagdiff_deleted">>),
                             diff_id_attr, diff_id)
      d1 == enter(g, list_start_ev.tag, list_attrs)
      d2 == reverse_lis(d1, old_li_atoms, diff_id)
      d3 == call("leave", <<d2, list_tag>>).d
      d4 == emit_change(d3, "ins", revert_attrs(diff_id), concat_events(new_p_atoms))
  IN  diff_group_exit(d4)

\* ------------------------------------ StreamDiffer.process: list type change
\* the depth count over the events of one atom: [depth, hit]
RECURSIVE depth_scan(_, _, _, _)
depth_scan(events, lname, depth, hit) ==
  IF events = <<>> THEN [depth |-> depth, hit |-> hit]
  ELSE LET e == Head(events)
           same == qname_localname(e.tag) = lname
       IN  IF e.t = START /\ same
           THEN depth_scan(Tail(events), lname, depth + 1, hit)
           ELSE IF e.t = END /\ same
           THEN depth_scan(Tail(events), lname, depth - 1, hit \/ depth - 1 = 0)
           ELSE depth_scan(Tail(events), lname, depth, hit)

\* the atom that closes the list opened before atom n (0-based): its index,
\* or -1 standing for None
RECURSIVE list_end_index(_, _, _, _)
list_end_index(atoms, n, lname, depth) ==
  IF n >= Len(atoms) THEN -1
  ELSE LET r == depth_scan(atoms[n + 1].events, lname, depth, FALSE)
       IN  IF r.hit THEN n ELSE list_end_index(atoms, n + 1, lname, r.depth)

li_atoms(atoms, lo, hi) ==
  LET is_li(a) == a.tag = "li"
  IN  SelectSeq(Slice(atoms, lo, hi), is_li)

\* inherited_changed for the one inheritable property the inputs use: the old
\* value of color, 'initial' when only the new list has one, "" when unchanged
inherited_changed(old_list_style, new_list_style) ==
  LET o == style_props(old_list_style)
      n == style_props(new_list_style)
  IN  IF o = n THEN ""
      ELSE IF o # <<>> THEN o[1][2] ELSE "initial"

\* merged_style: the old li declarations plus the inherited property it lacks
merged_li_style(old_li_style, inherited) ==
  LET p == style_props(old_li_style)
  IN  IF p # <<>> THEN p[1][1] \o ": " \o p[1][2] ELSE "color: " \o inherited

\* one item of the new list
swap_li(d, li_evs, old_li_evs, is_bullet_change, inherited, diff_id) ==
  LET has_old == old_li_evs # <<>> /\ old_li_evs[1].t = START
      a0 == IF is_bullet_change
            THEN call("inject_class", <<li_evs[1].attrs, "diff-bullet-ins">>) ELSE li_evs[1].attrs
      a1 == IF has_old THEN call("inject_refattr", <<a0, old_li_evs[1].attrs>>) ELSE a0
      li_style_changed == has_old /\ old_li_evs[1].attrs # li_evs[1].attrs
      d1 == enter(d, li_evs[1].tag, set_attr(a1, diff_id_attr, diff_id))
      d2 == IF li_style_changed
            THEN li_del_ins(d1, attrs_get(old_li_evs[1].attrs, "style"),
                            inner_events(old_li_evs), inner_events(li_evs))
            ELSE IF old_li_evs # <<>> /\ inner_events(old_li_evs) # inner_events(li_evs)
            THEN run_event_differ(d1, inner_events(old_li_evs), inner_events(li_evs))
            ELSE IF inherited # "" /\ old_li_evs # <<>>
            THEN li_del_ins(d1,
                   merged_li_style(attrs_get(old_li_evs[1].attrs, "style"), inherited),
                   inner_events(old_li_evs), inner_events(li_evs))
            ELSE append_all(d1, inner_events(li_evs))
  IN  call("leave", <<d2, li_evs[Len(li_evs)].tag>>).d

RECURSIVE swap_lis(_, _, _, _, _, _, _)
swap_lis(d, new_li_atoms, old_li_atoms, li_idx, is_bullet_change, inherited, diff_id) ==
  IF li_idx >= Len(new_li_atoms) THEN d
  ELSE LET old_li_evs == IF li_idx < Len(old_li_atoms)
                         THEN old_li_atoms[li_idx + 1].events ELSE <<>>
           d1 == call("swap_li", <<d, new_li_atoms[li_idx + 1].events, old_li_evs,
                         is_bullet_change, inherited, diff_id>>)
       IN  IF Ready(d1)
           THEN swap_lis(d1, new_li_atoms, old_li_atoms, li_idx + 1,
                         is_bullet_change, inherited, diff_id)
           ELSE d1

\* the emission for a changed list container: the hidden payload with the
\* whole old list, then the new list with its items
swap_emit(d, old_ev, new_ev, old_atoms, new_atoms, i1, j1, end_idx_old, end_idx_new) ==
  LET g == new_diff_id(diff_group_enter(d))
      diff_id == cur_id(g)
      d1 == emit_change(g, "del", revert_attrs(diff_id),
                        concat_events(Slice(old_atoms, i1, end_idx_old + 1)))
      is_bullet_change == old_ev.tag # new_ev.tag
      a0 == IF is_bullet_change
            THEN attrs_or(call("inject_class", <<new_ev.attrs, "tagdiff_added">>),
                          "data-old-tag", qname_localname(old_ev.tag))
            ELSE call("inject_class", <<new_ev.attrs, "tagdiff_replaced">>)
      list_attrs_new == set_attr(call("inject_refattr", <<a0, old_ev.attrs>>), diff_id_attr, diff_id)
      d2 == enter(d1, new_ev.tag, list_attrs_new)
      d3 == swap_lis(d2, li_atoms(new_atoms, j1 + 1, end_idx_new),
                     li_atoms(old_atoms, i1 + 1, end_idx_old), 0, is_bullet_change,
                     inherited_changed(attrs_get(old_ev.attrs, "style"),
                                       attrs_get(new_ev.attrs, "style")),
                     diff_id)
      d4 == call("leave", <<d3, new_atoms[end_idx_new + 1].events[1].tag>>).d
  IN  diff_group_exit(d4)

\* `while k + 1 < len(opcodes)`: skip the opcodes that start inside the lists
RECURSIVE skip_consumed(_, _, _, _)
skip_consumed(opcodes, k, end_idx_old, end_idx_new) ==
  IF k + 1 < Len(opcodes)
     /\ (opcodes[k + 2].i1 <= end_idx_old \/ opcodes[k + 2].j1 <= end_idx_new)
  THEN skip_consumed(opcodes, k + 1, end_idx_old, end_idx_new)
  ELSE k

\* ------------------------------------------ StreamDiffer.process: dispatcher
has_list_tags(events) ==
  \E i \in 1..Len(events) :
    events[i].t = START /\ qname_localname(events[i].tag) \in {"ul", "ol", "li"}

count_block_wrappers(events) ==
  Cardinality({i \in 1..Len(events) :
                 /\ events[i].t = START
                 /\ qname_localname(events[i].tag) \in BLOCK_WRAPPER_TAGS})

Step(d, k, branch) == [d |-> d, k |-> k, branch |-> branch]

\* the forward detector at opcode k: the step it takes, or branch "" when it
\* does not apply.  A pattern found without a paragraph and an item on both
\* sides is the bare `continue`: nothing is emitted and k stays.
forward_step(d, k, opcodes, old_atoms, new_atoms) ==
  LET op == opcodes[k + 1]
      idx == IF op.tag \in {"insert", "replace"}
             THEN call("list_start_index", <<new_atoms, op.j1, op.j2>>) ELSE -1
      list_start_ev == new_atoms[idx + 1].events[1]
      fs == call("forward_scan", <<opcodes, k + 1, <<>>, old_atoms, new_atoms,
                         qname_localname(list_start_ev.tag)>>)
      old_p_atoms == (IF op.tag = "replace"
                      THEN blocks_of(old_atoms, op.i1, op.i2) ELSE <<>>)
                     \o ranges_old_blocks(fs.ranges, old_atoms)
      new_li_atoms == ranges_new_blocks(fs.ranges, new_atoms)
  IN  IF idx < 0 \/ ~fs.found THEN Step(d, k, "")
      ELSE IF old_p_atoms # <<>> /\ new_li_atoms # <<>>
      THEN Step(forward_emit(d, list_start_ev, old_p_atoms, new_li_atoms),
                fs.scan_k, "forward_list")
      ELSE Step(d, k, "continue")

\* the forward detector found a list START in the insert range (list_tag set)
forward_list_tag(k, opcodes, new_atoms) ==
  /\ opcodes[k + 1].tag \in {"insert", "replace"}
  /\ call("list_start_index", <<new_atoms, opcodes[k + 1].j1, opcodes[k + 1].j2>>) >= 0

\* the reverse detector at opcode k
reverse_step(d, k, opcodes, old_atoms, new_atoms) ==
  LET op == opcodes[k + 1]
      applies == \/ op.tag = "delete"
                 \/ op.tag = "replace" /\ ~forward_list_tag(k, opcodes, new_atoms)
      idx == IF applies THEN call("list_start_index", <<old_atoms, op.i1, op.i2>>) ELSE -1
      list_start_ev == old_atoms[idx + 1].events[1]
      list_tag == qname_localname(list_start_ev.tag)
      rs == call("reverse_scan", <<opcodes, k + 1, <<>>, old_atoms, new_atoms, list_tag>>)
      s == opcodes[rs.scan_k + 1]
      old_li_atoms == ranges_old_blocks(rs.ranges, old_atoms)
      new_p_atoms == (IF op.tag = "replace"
                      THEN blocks_of(new_atoms, op.j1, op.j2) ELSE <<>>)
                     \o ranges_new_blocks(rs.ranges, new_atoms)
                     \o (IF s.tag = "replace"
                         THEN blocks_of(new_atoms, s.j1, s.j2) ELSE <<>>)
  IN  IF idx >= 0 /\ rs.found /\ old_li_atoms # <<>> /\ new_p_atoms # <<>>
      THEN Step(reverse_emit(d, list_start_ev, list_tag, old_li_atoms, new_p_atoms),
                rs.scan_k + 1, "reverse_list")
      ELSE Step(d, k, "")

\* a delete next to an insert where exactly one side holds list tags
pair_step(d, k, opcodes, old_atoms, new_atoms) ==
  LET op == opcodes[k + 1]
      op2 == opcodes[k + 2]
      del == IF op.tag = "delete" THEN op ELSE op2
      ins == IF op.tag = "delete" THEN op2 ELSE op
      old_events == concat_events(Slice(old_atoms, del.i1, del.i2))
      new_events == concat_events(Slice(new_atoms, ins.j1, ins.j2))
  IN  IF /\ op.tag \in {"delete", "insert"} /\ k + 1 < Len(opcodes)
         /\ op2.tag \in {"delete", "insert"} /\ op2.tag # op.tag
         /\ has_list_tags(old_events) # has_list_tags(new_events)
         /\ count_block_wrappers(old_events) <= 1
         /\ count_block_wrappers(new_events) <= 2
      THEN Step(call("grouped_delete_insert", <<d, old_events, new_events>>), k + 2, "pair")
      ELSE Step(d, k, "")

\* a replace of one structural START by one structural START
start_replace_step(d, k, opcodes, old_atoms, new_atoms) ==
  LET op == opcodes[k + 1]
      old_evs == old_atoms[op.i1 + 1].events
      new_evs == new_atoms[op.j1 + 1].events
      old_ev == old_evs[1]
      new_ev == new_evs[1]
      lname == qname_localname(old_ev.tag)
      new_lname == qname_localname(new_ev.tag)
      lists == lname \in {"ul", "ol"} /\ new_lname \in {"ul", "ol"}
      is_allowed_swap == lname = new_lname \/ lists
      end_idx_old == list_end_index(old_atoms, op.i1 + 1, lname, 1)
      end_idx_new == list_end_index(new_atoms, op.j1 + 1, new_lname, 1)
      k2 == skip_consumed(opcodes, k, end_idx_old, end_idx_new) + 1
  IN  IF ~(/\ op.tag = "replace" /\ op.i2 - op.i1 = 1 /\ op.j2 - op.j1 = 1
           /\ Len(old_evs) = 1 /\ Len(new_evs) = 1
           /\ old_ev.t = START /\ new_ev.t = START
           /\ is_allowed_swap
           /\ lname \in StructuralTags /\ new_lname \in StructuralTags)
      THEN Step(d, k, "")
      ELSE IF lists
      THEN IF /\ end_idx_old >= 0 /\ end_idx_new >= 0
              /\ li_atoms(new_atoms, op.j1 + 1, end_idx_new) # <<>>
           THEN Step(swap_emit(d, old_ev, new_ev, old_atoms, new_atoms,
                               op.i1, op.j1, end_idx_old, end_idx_new),
                     k2, "list_swap")
           ELSE Step(d, k, "")
      ELSE IF old_ev.attrs # new_ev.attrs
      THEN Step(call("enter_mark_replaced", <<d, new_ev.tag, new_ev.attrs, old_ev.attrs>>),
                k + 1, "mark_replaced")
      ELSE Step(d, k, "")

\* the default handling of an opcode
opcode_step(d, k, opcodes, old_atoms, new_atoms) ==
  LET op == opcodes[k + 1]
      olds == Slice(old_atoms, op.i1, op.i2)
      news == Slice(new_atoms, op.j1, op.j2)
  IN  IF op.tag = "replace"
      THEN Step(process_replace_opcode(d, olds, news), k + 1, "replace")
      ELSE IF op.tag = "delete"
      THEN Step(call("grouped_block", <<d, "del", concat_events(olds)>>), k + 1, "delete")
      ELSE IF op.tag = "insert"
      THEN Step(call("grouped_block", <<d, "ins", concat_events(news)>>), k + 1, "insert")
      ELSE Step(process_equal_opcode(d, olds, news), k + 1, "equal")

\* one iteration of `while k < len(opcodes)`: the first special case that
\* applies, else the default handling
dispatch(d, k, opcodes, old_atoms, new_atoms) ==
  LET f == call("forward_step", <<d, k, opcodes, old_atoms, new_atoms>>)
      r == call("reverse_step", <<d, k, opcodes, old_atoms, new_atoms>>)
      p == call("pair_step", <<d, k, opcodes, old_atoms, new_atoms>>)
      s == call("start_replace_step", <<d, k, opcodes, old_atoms, new_atoms>>)
  IN  IF f.branch # "" THEN f
      ELSE IF r.branch # "" THEN r
      ELSE IF p.branch # "" THEN p
      ELSE IF s.branch # "" THEN s
      ELSE opcode_step(d, k, opcodes, old_atoms, new_atoms)

\* the global similarity check at the head of process(): both texts are
\* non-blank and their ratio is below bulk_replace_similarity_threshold
bulk_replace_at(old_evs, new_evs, num, den) ==
  LET old_text == extract_text_from_events(old_evs)
      new_text == extract_text_from_events(new_evs)
  IN  /\ num > 0
      /\ strip(old_text) # <<>> /\ strip(new_text) # <<>>
      /\ ratio_below(old_text, new_text, num, den)

bulk_replace(old_evs, new_evs) ==
  bulk_replace_at(old_evs, new_evs, bulk_threshold_num, bulk_threshold_den)

\* the opcodes process() walks: SequenceMatcher over the atom keys, then
\* normalize_opcodes_for_delete_first (delete_first is on)
outer_opcodes(old_atoms, new_atoms) ==
  normalize_opcodes_for_delete_first(
    call("get_opcodes", <<AtomKeys(old_atoms), AtomKeys(new_atoms)>>))

\* ------------------------------------------------------------ method table
\* The methods that are reached along many call paths are invoked through
\* call(m, a): method m applied to the argument tuple a.  TLC's coverage
\* statistics copy the syntax tree of an operator at every place it is
\* applied, and stop at a recursive operator that is already being
\* expanded; routing the calls through this one recursive operator keeps
\* that tree linear in the size of the module.
call(m, a) ==
  CASE m = "get_opcodes" -> get_opcodes(a[1], a[2])
    [] m = "ActiveOrNew" -> ActiveOrNew(a[1])
    [] m = "inject_class" -> inject_class(a[1], a[2])
    [] m = "inject_refattr" -> inject_refattr(a[1], a[2])
    [] m = "leave" -> leave(a[1], a[2])
    [] m = "process_in_context" -> process_in_context(a[1], a[2], a[3])
    [] m = "flush_pending" -> flush_pending(a[1])
    [] m = "diff_text_step" -> diff_text_step(a[1], a[2], a[3], a[4])
    [] m = "insensitive_opcodes" -> insensitive_opcodes(a[1], a[2], a[3])
    [] m = "diff_text" -> diff_text(a[1], a[2], a[3])
    [] m = "IsWsText" -> IsWsText(a[1])
    [] m = "strip_edge_whitespace_events" ->
         strip_edge_whitespace_events(a[1])
    [] m = "toggle_parse" -> toggle_parse(a[1])
    [] m = "wrap_inline_visual_replace" ->
         wrap_inline_visual_replace(a[1], a[2], a[3], a[4], a[5])
    [] m = "wrap_block_visual_replace" ->
         wrap_block_visual_replace(a[1], a[2], a[3], a[4], a[5])
    [] m = "find_inline_wrapper_bounds" -> find_inline_wrapper_bounds(a[1])
    [] m = "try_inline_wrapper_to_plain" ->
         try_inline_wrapper_to_plain(a[1], a[2], a[3])
    [] m = "grouped_delete_insert" -> grouped_delete_insert(a[1], a[2], a[3])
    [] m = "enter_mark_replaced" ->
         enter_mark_replaced(a[1], a[2], a[3], a[4])
    [] m = "handle_matching_event_types" ->
         handle_matching_event_types(a[1], a[2], a[3])
    [] m = "handle_mismatched_event_types" ->
         handle_mismatched_event_types(a[1], a[2], a[3], a[4], a[5], a[6],
           a[7], a[8], a[9], a[10])
    [] m = "handle_replace_special_cases" ->
         handle_replace_special_cases(a[1], a[2], a[3])
    [] m = "replace" -> replace(a[1], a[2], a[3], a[4], a[5], a[6], a[7])
    [] m = "handle_table_cell_wrapper_pattern" ->
         handle_table_cell_wrapper_pattern(a[1], a[2], a[3], a[4], a[5])
    [] m = "process_events" -> process_events(a[1], a[2], a[3])
    [] m = "extract_tr_blocks" -> extract_tr_blocks(a[1])
    [] m = "row_key" -> row_key(a[1])
    [] m = "diff_cell_pair" -> diff_cell_pair(a[1], a[2], a[3], a[4])
    [] m = "grouped_block" -> grouped_block(a[1], a[2], a[3])
    [] m = "tr_step" -> tr_step(a[1], a[2], a[3], a[4])
    [] m = "diff_tr_by_cells" -> diff_tr_by_cells(a[1], a[2], a[3], a[4])
    [] m = "diff_row_pairs" ->
         diff_row_pairs(a[1], a[2], a[3], a[4], a[5], a[6], a[7], a[8])
    [] m = "diff_table_by_rows" -> diff_table_by_rows(a[1], a[2], a[3])
    [] m = "extract_text_spans" -> extract_text_spans(a[1])
    [] m = "inline_span_step" -> inline_span_step(a[1], a[2], a[3])
    [] m = "split_text_then_force_tail" -> split_text_then_force_tail(a[1])
    [] m = "equal_pair" -> equal_pair(a[1], a[2], a[3])
    [] m = "list_start_index" -> list_start_index(a[1], a[2], a[3])
    [] m = "forward_scan" -> forward_scan(a[1], a[2], a[3], a[4], a[5], a[6])
    [] m = "old_li_by_text" -> old_li_by_text(a[1], a[2])
    [] m = "forward_li" -> forward_li(a[1], a[2], a[3], a[4])
    [] m = "reverse_scan" -> reverse_scan(a[1], a[2], a[3], a[4], a[5], a[6])
    [] m = "swap_li" -> swap_li(a[1], a[2], a[3], a[4], a[5], a[6])
    [] m = "forward_step" -> forward_step(a[1], a[2], a[3], a[4], a[5])
    [] m = "reverse_step" -> reverse_step(a[1], a[2], a[3], a[4], a[5])
    [] m = "pair_step" -> pair_step(a[1], a[2], a[3], a[4], a[5])
    [] m = "start_replace_step" ->
         start_replace_step(a[1], a[2], a[3], a[4], a[5])
    [] m = "dispatch" -> dispatch(a[1], a[2], a[3], a[4], a[5])

\* --------------------------------------- utils.merge_adjacent_change_tags
\* _find_matching_start_index, scanning out_events backwards from idx
\* (0-based); -1 stands for None
RECURSIVE find_matching_start_index(_, _, _, _)
find_matching_start_index(out_events, lname, idx, depth) ==
  IF idx < 0 THEN -1
  ELSE LET e == out_events[idx + 1]
           same == qname_localname(e.tag) = lname
       IN  IF e.t = END /\ same
           THEN find_matching_start_index(out_events, lname, idx - 1, depth + 1)
           ELSE IF e.t = START /\ same
           THEN IF depth - 1 = 0 THEN idx
                ELSE find_matching_start_index(out_events, lname, idx - 1, depth - 1)
           ELSE find_matching_start_index(out_events, lname, idx - 1, depth)

\* the body of the loop of merge_adjacent_change_tags: the START of an ins or
\* del that directly follows the END of one is merged into it when it has no
\* attributes or when both carry the same diff id
merge_event(out_events, e) ==
  LET lname == qname_localname(e.tag)
      adjacent == /\ e.t = START /\ lname \in {"ins", "del"} /\ out_events # <<>>
                  /\ Last(out_events).t = END
                  /\ qname_localname(Last(out_events).tag) = lname
      this_diff_id == attrs_get(e.attrs, diff_id_attr)
      start_idx == find_matching_start_index(out_events, lname,
                                             Len(out_events) - 1, 0)
      same_id == /\ this_diff_id # "" /\ start_idx >= 0
                 /\ attrs_get(out_events[start_idx + 1].attrs, diff_id_attr)
                      = this_diff_id
  IN  IF adjacent /\ (e.attrs = <<>> \/ same_id) THEN Front(out_events)
      ELSE Append(out_events, e)

\* variant: the loop stops merging after the first pair it merged and copies
\* the rest of the stream
RECURSIVE merge_from_once(_, _, _)
merge_from_once(events, i, out_events) ==
  IF i > Len(events) THEN out_events
  ELSE LET o1 == merge_event(out_events, events[i])
       IN  IF Len(o1) < Len(out_events)
           THEN o1 \o SubSeq(events, i + 1, Len(events))
           ELSE merge_from_once(events, i + 1, o1)

RECURSIVE merge_from(_, _, _)
merge_from(events, i, out_events) ==
  IF i > Len(events) THEN out_events
  ELSE LET o1 == merge_event(out_events, events[i])
       IN  IF Len(o1) >= 0 THEN merge_from(events, i + 1, o1) ELSE o1

merge_adjacent_change_tags(events) == merge_from(events, 1, <<>>)

\* ------------------------------------------------------------------ inputs
\* parse_html: the fragment inside the wrapper <div class="diff">
Wrap(body) ==
  <<StartEv("div", <<<<"class", "diff">>>>)>> \o body \o <<EndEv("div")>>

Elem(tag, attrs, body) == <<StartEv(tag, attrs)>> \o body \o <<EndEv(tag)>>

Txt(c) == <<TextEv(<<c>>)>>

Red == <<<<"style", "color:red">>>>

TableOf(c) ==
  Elem("table", <<>>,
    Elem("tbody", <<>>,
      Elem("tr", <<>>, Elem("td", <<>>, Txt(c)) \o Elem("td", <<>>, Txt("x")))))

\* The documents the differ is run on, as parse_html delivers them:
\*   z | (one space) | <ul> </ul> | <p>a</p> | z<ul><li>a</li></ul> |
\*   z<p>a</p> | <ul><li>a</li></ul> | <ol><li>a</li></ol> |
\*   <table><tbody><tr><td>a</td><td>x</td></tr></tbody></table> | the same
\*   table with b | z<p style="color:red">b</p> |
\*   <h1><ul><li>x</li></ul></h1>z | a. | <h1>a</h1> | ..<br> | <p>.<br></p> |
\*   <span style="color:red">z</span> | z<p ref="r" style="color:red">b</p> |
\*   z<p style="color:red" ref="r">a</p> | <p>z</p> |
\*   z<p style="color:red">b<p>c</p></p> | z<p>a<p>c</p></p>
Docs ==
  << Wrap(Txt("z")),
     Wrap(Txt(" ")),
     Wrap(Elem("ul", <<>>, Txt(" "))),
     Wrap(Elem("p", <<>>, Txt("a"))),
     Wrap(Txt("z") \o Elem("ul", <<>>, Elem("li", <<>>, Txt("a")))),
     Wrap(Txt("z") \o Elem("p", <<>>, Txt("a"))),
     Wrap(Elem("ul", <<>>, Elem("li", <<>>, Txt("a")))),
     Wrap(Elem("ol", <<>>, Elem("li", <<>>, Txt("a")))),
     Wrap(TableOf("a")),
     Wrap(TableOf("b")),
     Wrap(Txt("z") \o Elem("p", Red, Txt("b"))),
     Wrap(Elem("h1", <<>>, Elem("ul", <<>>, Elem("li", <<>>, Txt("x")))) \o Txt("z")),
     Wrap(<<TextEv(<<"a", ".">>)>>),
     Wrap(Elem("h1", <<>>, Txt("a"))),
     Wrap(<<TextEv(<<".", ".">>)>> \o Elem("br", <<>>, <<>>)),
     Wrap(Elem("p", <<>>, Txt(".") \o Elem("br", <<>>, <<>>))),
     Wrap(Elem("span", Red, Txt("z"))),
     Wrap(Txt("z") \o Elem("p", <<<<"ref", "r">>>> \o Red, Txt("b"))),
     Wrap(Txt("z") \o Elem("p", Red \o <<<<"ref", "r">>>>, Txt("a"))),
     Wrap(Elem("p", <<>>, Txt("z"))),
     Wrap(Txt("z") \o Elem("p", Red, Txt("b") \o Elem("p", <<>>, Txt("c")))),
     Wrap(Txt("z") \o Elem("p", <<>>, Txt("a") \o Elem("p", <<>>, Txt("c")))) >>

\* the cells a row is made of: <td>a</td>, <td>b</td>, an empty <td></td>,
\* <td style="color:red">a</td>
Cells ==
  << Elem("td", <<>>, Txt("a")), Elem("td", <<>>, Txt("b")),
     Elem("td", <<>>, <<>>), Elem("td", Red, Txt("a")) >>

\* a row has at most MaxCells cells
MaxCells == 3

\* the dispatcher loop is followed for at most MaxIter iterations
MaxIter == 8

DocSet == {Docs[n] : n \in 1..Len(Docs)}

RowsOfLen(n) == [1..n -> 1..Len(Cells)]

RowEvents(r) ==
  Elem("tr", <<>>, Flatten([i \in 1..Len(r) |-> Cells[r[i]]]))

Rows == {RowEvents(r) : r \in UNION {RowsOfLen(n) : n \in 0..MaxCells}}

\* ----------------------------------------------------------- state machine
\* The run of get_diff_stream() on one pair of documents:
\*   old_events, new_events, old_atoms, new_atoms: the fields __init__ sets;
\*   opcodes, k: the locals of process(); iter counts the iterations of its
\*   while loop; d: the emitter state; result: the stream get_diff_stream
\*   returns; pc: "start" -> "loop" -> "merge" -> "done".
\* The run of diff_tr_by_cells on one pair of rows (pc "cells" -> "row_done"):
\*   old_tr, new_tr: the row events; w: the emitter state with the numbers
\*   of old and new cells consumed.
\* branch names the branch the last loop iteration took ("" before the
\* first one).
VARIABLES old_events, new_events, old_atoms, new_atoms, opcodes, k, iter, d,
          result, pc, old_tr, new_tr, w, branch

vars == <<old_events, new_events, old_atoms, new_atoms, opcodes, k, iter, d,
          result, pc, old_tr, new_tr, w, branch>>

doc_vars == <<old_events, new_events, old_atoms, new_atoms>>

row_vars == <<old_tr, new_tr, w>>

NoWalk == [d |-> NewDiffer(0), i |-> 0, j |-> 0]

\* StreamDiffer(old_stream, new_stream): the streams are atomized
Init ==
  /\ \E old_doc \in DocSet, new_doc \in DocSet :
       /\ old_events = old_doc
       /\ new_events = new_doc
       /\ old_atoms = atomize_events(old_doc)
       /\ new_atoms = atomize_events(new_doc)
  /\ opcodes = <<>> /\ k = 0 /\ iter = 0
  /\ d = NewDiffer(0)
  /\ result = <<>>
  /\ pc = "start"
  /\ branch = ""
  /\ old_tr = <<>> /\ new_tr = <<>> /\ w = NoWalk

\* process(), texts too different: bulk delete then bulk insert of the two
\* whole streams, and return (branch "bulk")
BulkReplace ==
  /\ pc = "start"
  /\ bulk_replace(old_events, new_events)
  /\ d' = call("grouped_delete_insert", <<d, old_events, new_events>>)
  /\ pc' = "merge"
  /\ branch' = "bulk"
  /\ UNCHANGED <<doc_vars, opcodes, k, iter, result, row_vars>>

\* process(), otherwise: the opcodes over the atom keys
ComputeOpcodes ==
  /\ pc = "start"
  /\ ~bulk_replace(old_events, new_events)
  /\ opcodes' = outer_opcodes(old_atoms, new_atoms)
  /\ pc' = "loop"
  /\ UNCHANGED <<doc_vars, k, iter, d, result, row_vars, branch>>

\* One iteration of the while loop of process().  The branch it takes is
\*   "forward_list"  the forward list detector emits a paragraph-to-list change
\*   "continue"      the forward list detector found its pattern with nothing
\*                   to emit: `if found_structural: continue`
\*   "reverse_list"  the reverse list detector emits a list-to-paragraph change
\*   "pair"          a delete and an insert next to each other, one of them
\*                   with list tags
\*   "list_swap"     replace of a list START by a list START
\*   "mark_replaced" replace of a changed structural START
\*   "replace", "delete", "insert", "equal"  the default handlers
Iteration ==
  /\ pc = "loop"
  /\ k < Len(opcodes)
  /\ iter < MaxIter
  /\ \E s \in {call("dispatch", <<d, k, opcodes, old_atoms, new_atoms>>)} :
       /\ d' = s.d
       /\ k' = s.k
       /\ branch' = s.branch
  /\ iter' = iter + 1
  /\ UNCHANGED <<doc_vars, opcodes, result, pc, row_vars>>

\* the loop is over: leave_all()
LeaveAll ==
  /\ pc = "loop"
  /\ k >= Len(opcodes)
  /\ d' = leave_all(d)
  /\ pc' = "merge"
  /\ UNCHANGED <<doc_vars, opcodes, k, iter, result, row_vars, branch>>

\* get_diff_stream after process(): merge_adjacent_change_tags
MergeResult ==
  /\ pc = "merge"
  /\ result' = merge_adjacent_change_tags(d.result)
  /\ pc' = "done"
  /\ UNCHANGED <<doc_vars, opcodes, k, iter, d, row_vars, branch>>

Next ==
  \/ BulkReplace
  \/ ComputeOpcodes
  \/ Iteration
  \/ LeaveAll
  \/ MergeResult

Spec == Init /\ [][Next]_vars

\* ------------------------------------------- state machine of one row diff
old_cells == extract_direct_tr_cells(old_tr)

new_cells == extract_direct_tr_cells(new_tr)

\* diff_tr_by_cells(differ, old_tr_events, new_tr_events) up to the cell
\* loops: the old <tr> Start is emitted
InitTr ==
  /\ old_tr \in Rows
  /\ new_tr \in Rows
  /\ w = [d |-> append(NewDiffer(0), old_tr[1]), i |-> 0, j |-> 0]
  /\ pc = "cells"
  /\ branch = ""
  /\ old_events = <<>> /\ new_events = <<>>
  /\ old_atoms = <<>> /\ new_atoms = <<>>
  /\ opcodes = <<>> /\ k = 0 /\ iter = 0
  /\ d = NewDiffer(0)
  /\ result = <<>>

\* One cell step.  The branch it takes is "single_delete" or "single_insert"
\* (the one-column alignments), or a branch of the greedy walk: "same",
\* "delete", "insert", "pair", "fallback".
CellStep ==
  /\ pc = "cells"
  /\ ~tr_done(w, old_cells, new_cells)
  /\ w' = call("tr_step", <<w, old_cells, new_cells, "">>)
  /\ branch' = tr_branch(w, old_cells, new_cells)
  /\ UNCHANGED <<doc_vars, opcodes, k, iter, d, result, pc, old_tr, new_tr>>

\* the cell loops are over: the old </tr> is emitted
RowEnd ==
  /\ pc = "cells"
  /\ tr_done(w, old_cells, new_cells)
  /\ w' = [w EXCEPT !.d = append(@, Last(old_tr))]
  /\ pc' = "row_done"
  /\ UNCHANGED <<doc_vars, opcodes, k, iter, d, result, old_tr, new_tr, branch>>

NextTr ==
  \/ CellStep
  \/ RowEnd

SpecTr == InitTr /\ [][NextTr]_vars

\* --------------------------- state machine of merge_adjacent_change_tags
\* The events a stream handed to merge_adjacent_change_tags is made of: del
\* and ins Starts without attributes and with diff id 1 or 2, their Ends, text
MergeEvents ==
  { StartEv("del", <<>>), StartEv("del", <<<<diff_id_attr, "1">>>>),
    StartEv("del", <<<<diff_id_attr, "2">>>>), EndEv("del"),
    StartEv("ins", <<>>), StartEv("ins", <<<<diff_id_attr, "1">>>>),
    EndEv("ins"), TextEv(<<"a">>) }

MaxStream == 4

MergeStreams == UNION {[1..n -> MergeEvents] : n \in 0..MaxStream}

\* merge_adjacent_change_tags(events): old_events is the stream, k the number
\* of events the loop has taken, result the list `out`
InitMerge ==
  /\ old_events \in MergeStreams
  /\ k = 0
  /\ result = <<>>
  /\ pc = IF old_events = <<>> THEN "merged" ELSE "merging"
  /\ branch = ""
  /\ new_events = <<>> /\ old_atoms = <<>> /\ new_atoms = <<>>
  /\ opcodes = <<>> /\ iter = 0
  /\ d = NewDiffer(0)
  /\ old_tr = <<>> /\ new_tr = <<>> /\ w = NoWalk

\* one turn of the loop
MergeStep ==
  /\ pc = "merging"
  /\ result' = merge_event(result, old_events[k + 1])
  /\ k' = k + 1
  /\ pc' = IF k + 1 = Len(old_events) THEN "merged" ELSE "merging"
  /\ UNCHANGED <<old_events, new_events, old_atoms, new_atoms, opcodes, iter, d,
                 row_vars, branch>>

NextMerge == MergeStep

SpecMerge == InitMerge /\ [][NextMerge]_vars

\* ------------------------------------------------ state machine of diff_text
\* the characters of the texts: a letter, a space, a full stop
TextChars == {"a", " ", "."}

MaxText == 4

MaxLongText == 5

\* the texts of MaxLongText characters that hold a run of two or more spaces
LongTexts ==
  {s \in [1..MaxLongText -> TextChars] :
     \E i \in 1..(MaxLongText - 1) : s[i] = " " /\ s[i + 1] = " "}

Texts == UNION {[1..n -> TextChars] : n \in 1..MaxText} \cup LongTexts

\* the token lists of the two texts
old_tokens == text_split(old_events[1].txt)

new_tokens == text_split(new_events[1].txt)

\* diff_text(differ, pos, old_text, new_text) up to the loop: old_events and
\* new_events hold the two TEXT events, opcodes the opcodes of the matcher
\* over the tokens, k the number of opcodes taken, w the differ with
\* pending_del and pending_ins
InitText ==
  /\ \E old_text \in Texts, new_text \in Texts :
       /\ old_events = <<TextEv(old_text)>>
       /\ new_events = <<TextEv(new_text)>>
       /\ opcodes = call("insensitive_opcodes",
                         <<text_split(old_text), text_split(new_text),
                           sequence_match_threshold>>)
  /\ k = 0
  /\ w = [d |-> NewDiffer(0), pending_del |-> <<>>, pending_ins |-> <<>>]
  /\ pc = "text"
  /\ branch = ""
  /\ old_atoms = <<>> /\ new_atoms = <<>>
  /\ iter = 0
  /\ d = NewDiffer(0)
  /\ result = <<>>
  /\ old_tr = <<>> /\ new_tr = <<>>

\* one opcode of the loop
TextStep ==
  /\ pc = "text"
  /\ k < Len(opcodes)
  /\ w' = call("diff_text_step", <<w, opcodes[k + 1], old_tokens, new_tokens>>)
  /\ k' = k + 1
  /\ UNCHANGED <<doc_vars, opcodes, iter, d, result, pc, old_tr, new_tr, branch>>

\* the flush_pending() after the loop
TextEnd ==
  /\ pc = "text"
  /\ k = Len(opcodes)
  /\ w' = call("flush_pending", <<w>>)
  /\ pc' = "text_done"
  /\ UNCHANGED <<doc_vars, opcodes, k, iter, d, result, old_tr, new_tr, branch>>

NextText ==
  \/ TextStep
  \/ TextEnd

SpecText == InitText /\ [][NextText]_vars

\* ------------------------------------------------------ reading the output
\* Operators over an event stream, used to state the properties below.

\* every Start is closed by its own End in last-opened-first-closed order,
\* and no End comes without its Start; st is the stack of the open tags
RECURSIVE balanced_from(_, _, _)
balanced_from(evs, i, st) ==
  IF i > Len(evs) THEN st = <<>>
  ELSE IF evs[i].t = START THEN balanced_from(evs, i + 1, Append(st, evs[i].tag))
  ELSE IF evs[i].t = END
       THEN /\ st # <<>>
            /\ Last(st) = evs[i].tag
            /\ balanced_from(evs, i + 1, Front(st))
  ELSE balanced_from(evs, i + 1, st)

balanced(evs) == balanced_from(evs, 1, <<>>)

\* the classes the engine writes
MarkClasses ==
  {"tagdiff_added", "tagdiff_deleted", "tagdiff_replaced", "diff-bullet-ins",
   "diff-bullet-del", "structural-revert-data"}

\* c is one of the (at most two) names in the class attribute
has_class(attrs, c) ==
  LET v == attrs_get(attrs, "class")
  IN  \/ v = c
      \/ \E x \in MarkClasses : v = x \o " " \o c \/ v = c \o " " \o x

diff_id_of(e) == attrs_get(e.attrs, diff_id_attr)

\* the text as a reader sees it: the line-break marker glyph is markup, the
\* no-break space is a space, whitespace is collapsed
visible_text(s) ==
  LET is_text(c) == c # linebreak_marker
  IN  collapse_ws(SelectSeq(s, is_text))

text_of(evs) == visible_text(raw_text_from_events(evs))

\* the text outside every element whose tag is in tags or that carries a
\* class in classes; st records, for each open element, whether it is dropped
RECURSIVE kept_text(_, _, _, _, _)
kept_text(evs, i, st, tags, classes) ==
  IF i > Len(evs) THEN <<>>
  ELSE LET e == evs[i]
           drop == e.tag \in tags \/ \E c \in classes : has_class(e.attrs, c)
           skipping == \E n \in 1..Len(st) : st[n]
       IN  IF e.t = START
           THEN kept_text(evs, i + 1, Append(st, drop), tags, classes)
           ELSE IF e.t = END
           THEN kept_text(evs, i + 1, IF st = <<>> THEN st ELSE Front(st),
                          tags, classes)
           ELSE (IF skipping THEN <<>> ELSE e.txt)
                \o kept_text(evs, i + 1, st, tags, classes)

\* accepting the changes: del subtrees (hidden revert payloads included) and
\* the elements marked tagdiff_deleted / diff-bullet-del go, ins is unwrapped
accept(evs) ==
  visible_text(kept_text(evs, 1, <<>>, {"del"},
                         {"tagdiff_deleted", "diff-bullet-del"}))

\* rejecting the changes: ins subtrees and the elements marked tagdiff_added /
\* diff-bullet-ins go, del is unwrapped; a hidden revert payload is a del, so
\* its content stays, and the structure that replaced it is marked
\* tagdiff_added, so it goes
reject(evs) ==
  visible_text(kept_text(evs, 1, <<>>, {"ins"},
                         {"tagdiff_added", "diff-bullet-ins"}))

\* --------------------------------------------------------------- properties
\* C1: process() terminates with a complete output because every iteration of
\* the opcode dispatcher loop moves the opcode index k forward: past the
\* opcodes a rewriter handled, or by one in the default handler; a list
\* detector with nothing to emit counts as not handled, so k still advances.
C1_IterationAdvancesK ==
  [][(pc = "loop" /\ pc' = "loop") => k' > k]_vars

\* C2: the stream get_diff_stream returns is balanced and properly nested,
\* the ins/del markers, synthetic li elements and hidden revert elements of
\* the emitter included.
C2_OutputBalanced ==
  pc = "done" => balanced(result)

\* C3: accept yields NEW.  Removing every del subtree and every element marked
\* tagdiff_deleted or diff-bullet-del and unwrapping every ins leaves exactly
\* the text of NEW after whitespace collapse.
C3_AcceptYieldsNew ==
  pc = "done" => accept(result) = text_of(new_events)

\* C4: reject yields OLD.  Removing every ins subtree and every element marked
\* tagdiff_added or diff-bullet-ins, unwrapping every visible del and keeping
\* the hidden revert payloads leaves exactly the text of OLD after whitespace
\* collapse.
C4_RejectYieldsOld ==
  pc = "done" => reject(result) = text_of(old_events)

\* adjacent TEXT events joined: the stream up to the way the text is cut
RECURSIVE join_text(_)
join_text(evs) ==
  IF Len(evs) < 2 THEN evs
  ELSE IF evs[1].t = TEXT /\ evs[2].t = TEXT
       THEN join_text(<<TextEv(evs[1].txt \o evs[2].txt)>>
                      \o SubSeq(evs, 3, Len(evs)))
       ELSE <<evs[1]>> \o join_text(Tail(evs))

\* no ins, no del and no element with a class the engine writes
unmarked(evs) ==
  \A i \in 1..Len(evs) :
    evs[i].t = START =>
      /\ evs[i].tag \notin {"ins", "del"}
      /\ \A c \in MarkClasses \ {"structural-revert-data"} :
           ~has_class(evs[i].attrs, c)

\* C5: round-trip identity.  Diffing X against itself gives an output with no
\* ins, no del and no tagdiff_added / tagdiff_deleted / tagdiff_replaced /
\* diff-bullet-ins / diff-bullet-del class, and the output events are exactly
\* those of X inside the wrapper.
C5_RoundTripIdentity ==
  (pc = "done" /\ old_events = new_events) =>
    /\ unmarked(result)
    /\ join_text(result) = join_text(new_events)

\* the index of the Start that the End at index idx closes (0 if none)
RECURSIVE opener_scan(_, _, _, _)
opener_scan(evs, tag, idx, depth) ==
  IF idx < 1 THEN 0
  ELSE IF evs[idx].t = END /\ evs[idx].tag = tag
       THEN opener_scan(evs, tag, idx - 1, depth + 1)
  ELSE IF evs[idx].t = START /\ evs[idx].tag = tag
       THEN IF depth = 1 THEN idx
            ELSE opener_scan(evs, tag, idx - 1, depth - 1)
  ELSE opener_scan(evs, tag, idx - 1, depth)

opener(evs, i) == opener_scan(evs, evs[i].tag, i, 0)

hidden(e) == has_class(e.attrs, "structural-revert-data")

\* the End of a del at i and the Start of an ins at i + 1 are the two halves
\* of one change: both are visible, and the del holds only text and change
\* markers (old content, not a block that was removed on its own)
change_pair(evs, i) ==
  /\ evs[i].t = END /\ evs[i].tag = "del"
  /\ evs[i + 1].t = START /\ evs[i + 1].tag = "ins"
  /\ opener(evs, i) > 0
  /\ ~hidden(evs[opener(evs, i)]) /\ ~hidden(evs[i + 1])
  /\ \A n \in opener(evs, i)..i :
       evs[n].t = TEXT \/ evs[n].tag \in {"ins", "del"}

\* C6: with diff ids on, a del and an ins emitted as the two halves of one
\* change carry the same diff id: text replacement, inline tag replacement,
\* the style-only change of an element, the content of a table cell.
C6_PairedMarkersShareId ==
  pc = "done" =>
    \A i \in 1..(Len(result) - 1) :
      change_pair(result, i) =>
        diff_id_of(result[opener(result, i)]) = diff_id_of(result[i + 1])

\* C7: delete-first ordering.  For every diff id carried by a del and by an
\* ins, the Start of the del comes before the Start of the ins: never
\* insert-then-delete, never del/ins/del interleaved.
C7_DeleteFirst ==
  pc = "done" =>
    \A i, j \in 1..Len(result) :
      ( /\ result[i].t = START /\ result[i].tag = "ins"
        /\ result[j].t = START /\ result[j].tag = "del"
        /\ diff_id_of(result[i]) # ""
        /\ diff_id_of(result[i]) = diff_id_of(result[j]) ) => j < i

\* some Start of a structural tag is emitted while a visible ins or del is
\* open; st holds, for each open element, whether it is a visible ins/del
RECURSIVE wrapped_structural(_, _, _)
wrapped_structural(evs, i, st) ==
  IF i > Len(evs) THEN FALSE
  ELSE LET e == evs[i]
           marker == e.tag \in {"ins", "del"} /\ ~hidden(e)
           hid == e.tag \in {"ins", "del"} /\ hidden(e)
           inside == \E n \in 1..Len(st) : st[n] = "marker"
           shielded == \E n \in 1..Len(st) : st[n] = "hidden"
       IN  IF e.t = START
           THEN \/ e.tag \in StructuralTags /\ inside /\ ~shielded
                \/ wrapped_structural(evs, i + 1,
                     Append(st, IF marker THEN "marker"
                                ELSE IF hid THEN "hidden" ELSE "other"))
           ELSE IF e.t = END
           THEN wrapped_structural(evs, i + 1,
                                   IF st = <<>> THEN st ELSE Front(st))
           ELSE wrapped_structural(evs, i + 1, st)

\* C8: the core structural rule.  A Start of table, thead, tbody, tfoot, tr,
\* td, th, ul, ol or li that belongs to a deleted or inserted range is marked
\* by class (tagdiff_deleted / tagdiff_added) and no visible ins or del is
\* open around it, also when it is nested in a deleted or inserted p or
\* h1-h6.  In the output: no structural Start inside a visible ins or del.
C8_NoMarkerAroundStructural ==
  pc = "done" => ~wrapped_structural(result, 1, <<>>)

\* ---------------------------------------------------- properties of one row
\* the cells of the output row so far
out_cells == extract_direct_tr_cells(w.d.result)

\* the key of the claim: the tag and the whitespace-collapsed text
claim_key(cell) == <<cell.tag, collapse_ws(raw_text_from_events(cell.events))>>

claim_keys(cells) == [n \in 1..Len(cells) |-> claim_key(cells[n])]

\* the score of removing old[k0] (k0 counted from 0): the matches of the
\* cells before k0 in place plus the matches of the cells after k0 shifted
removal_score(ok, nk, k0) ==
  Cardinality({n \in 1..k0 : ok[n] = nk[n]})
  + Cardinality({n \in (k0 + 1)..Len(nk) : ok[n + 1] = nk[n]})

\* the smallest index of the greatest score
removal_index(ok, nk) ==
  CHOOSE k0 \in 0..(Len(ok) - 1) :
    \A m \in 0..(Len(ok) - 1) :
      \/ removal_score(ok, nk, k0) > removal_score(ok, nk, m)
      \/ removal_score(ok, nk, k0) = removal_score(ok, nk, m) /\ k0 <= m

cell_content(cell_events) == SubSeq(cell_events, 2, Len(cell_events) - 1)

\* events with the attributes of the change markers left out
marker_shape(evs) ==
  [n \in 1..Len(evs) |->
     IF evs[n].tag \in {"ins", "del"} THEN [evs[n] EXCEPT !.attrs = <<>>]
     ELSE evs[n]]

\* kind(content); nothing for no content
marked_content(kind, content) ==
  IF content = <<>> THEN <<>>
  ELSE <<StartEv(kind, <<>>)>> \o content \o <<EndEv(kind)>>

written(before, after) == SubSeq(after.result, Len(before.result) + 1, Len(after.result))

\* the index of the End that closes the Start at i, or 0
closer(evs, i) ==
  LET ends == {m \in (i + 1)..Len(evs) : evs[m].t = END /\ opener(evs, m) = i}
  IN  IF ends = {} THEN 0 ELSE CHOOSE m \in ends : TRUE

\* a paragraph-to-list group: one hidden del that holds old events, then the
\* list marked tagdiff_added whose items are all marked diff-bullet-ins, the
\* del, the list and the items under one id; an item whose text is the text of
\* an old paragraph holds no ins and no del
list_group(out, olds) ==
  /\ Len(out) >= 2
  /\ out[1].t = START /\ out[1].tag = "del" /\ hidden(out[1])
  /\ diff_id_of(out[1]) # ""
  /\ Cardinality({n \in 1..Len(out) : out[n].t = START /\ hidden(out[n])}) = 1
  /\ LET p == closer(out, 1)
     IN  /\ p > 2 /\ p < Len(out)
         /\ \A n \in 2..(p - 1) : \E m \in 1..Len(olds) : olds[m] = out[n]
         /\ \E n \in 2..(p - 1) : out[n].t = START /\ out[n].tag \in BLOCK_WRAPPER_TAGS
         /\ out[p + 1].t = START /\ out[p + 1].tag \in {"ul", "ol"}
         /\ has_class(out[p + 1].attrs, "tagdiff_added")
         /\ diff_id_of(out[p + 1]) = diff_id_of(out[1])
         /\ closer(out, p + 1) = Len(out)
         /\ \A n \in (p + 2)..Len(out) :
              (out[n].t = START /\ out[n].tag = "li") =>
                /\ has_class(out[n].attrs, "diff-bullet-ins")
                /\ diff_id_of(out[n]) = diff_id_of(out[1])
                /\ LET m == closer(out, n)
                       same == \E q \in 2..(p - 1) :
                                 /\ out[q].t = TEXT
                                 /\ text_of(<<out[q]>>) = text_of(SubSeq(out, n, m))
                   IN  /\ m > n
                       /\ same => \A q \in n..m : out[q].tag \notin {"ins", "del"}

\* C11: a step of the loop that takes the paragraphs-to-list branch writes one
\* group of that shape and allocates exactly one diff id for it.
C11_ListGroupOneId ==
  [][(pc = "loop" /\ iter' = iter + 1 /\ branch' = "forward_list") =>
       /\ list_group(written(d, d'), old_events)
       /\ d'.diff_id_state = d.diff_id_state + 1]_vars

\* ------------------------------------------------ properties of the bulk path
\* the stream as far as it is written: the merged result, or the differ's
final_output == IF pc = "done" THEN result ELSE d.result

\* a Start the engine wrote or marked: ins, del, or a change class
is_marker(e) ==
  /\ e.t = START
  /\ \/ e.tag \in {"ins", "del"}
     \/ \E c \in MarkClasses : has_class(e.attrs, c)

insert_marked(e) ==
  e.t = START /\ (e.tag = "ins" \/ has_class(e.attrs, "tagdiff_added")
                                \/ has_class(e.attrs, "diff-bullet-ins"))

delete_marked(e) ==
  e.t = START /\ (e.tag = "del" \/ has_class(e.attrs, "tagdiff_deleted")
                                \/ has_class(e.attrs, "diff-bullet-del"))

\* out is a delete of all of olds followed by an insert of all of news
delete_then_insert(out, olds, news) ==
  \E s \in 0..Len(out) :
    LET first == SubSeq(out, 1, s)
        second == SubSeq(out, s + 1, Len(out))
    IN  /\ \A n \in 1..Len(first) : ~insert_marked(first[n])
        /\ \A n \in 1..Len(second) : ~delete_marked(second[n])
        /\ reject(first) = text_of(olds) /\ accept(first) = <<>>
        /\ accept(second) = text_of(news) /\ reject(second) = <<>>

\* C12: bulk replace.  The bulk path is taken exactly when the threshold is
\* positive, both texts are non-blank and their similarity ratio is below the
\* threshold; it then runs no outer alignment, writes all of the old stream as
\* deleted followed by all of the new stream as inserted, and every marker and
\* change class carries one and the same diff id.  With a threshold of 0, or
\* with a blank text on either side, the bulk path is never taken.
C12_BulkReplace ==
  LET old_text == collapse_ws(raw_text_from_events(old_events))
      new_text == collapse_ws(raw_text_from_events(new_events))
      different == ratio_below(LowerText(old_text), LowerText(new_text),
                               bulk_threshold_num, bulk_threshold_den)
      eligible == old_text # <<>> /\ new_text # <<>> /\ different
      out == final_output
  IN  /\ pc # "start" => (branch = "bulk" <=> eligible)
      /\ ~bulk_replace_at(old_events, new_events, 0, bulk_threshold_den)
      /\ (old_text = <<>> \/ new_text = <<>>) =>
           \A num \in 0..bulk_threshold_den :
             ~bulk_replace_at(old_events, new_events, num, bulk_threshold_den)
      /\ (pc \in {"merge", "done"} /\ branch = "bulk") =>
           /\ opcodes = <<>> /\ k = 0 /\ iter = 0
           /\ delete_then_insert(out, old_events, new_events)
           /\ \E n \in 1..Len(out) : is_marker(out[n])
           /\ \A n, m \in 1..Len(out) :
                (is_marker(out[n]) /\ is_marker(out[m])) =>
                  /\ diff_id_of(out[n]) # ""
                  /\ diff_id_of(out[n]) = diff_id_of(out[m])

C12_Witness ==
  /\ pc = "done" /\ branch = "bulk"
  /\ \E n, m \in 1..Len(result) :
       /\ n < m
       /\ result[n].t = START /\ result[n].tag = "del"
       /\ result[m].t = START /\ result[m].tag = "ins"
  /\ \E n \in 1..Len(result) : has_class(result[n].attrs, "tagdiff_added")

\* C13: single root wrapper.  On every path the finished output is one wrapper
\* element: its first event is the Start of the wrapper with the wrapper
\* class, its last event is the End that closes that Start, and every other
\* event lies strictly between the two.
C13_SingleRootWrapper ==
  pc = "done" =>
    /\ Len(result) >= 2
    /\ result[1].t = START /\ is_diff_wrapper(result[1].tag, result[1].attrs)
    /\ result[Len(result)].t = END
    /\ result[Len(result)].tag = result[1].tag
    /\ closer(result, 1) = Len(result)

\* ------------------------------------------ properties of the block processor
\* the index of the innermost element open just before position n, or 0
innermost_open(evs, n) ==
  LET open == {m \in 1..(n - 1) :
                 /\ evs[m].t = START
                 /\ LET c == closer(evs, m) IN c = 0 \/ c >= n}
  IN  IF open = {} THEN 0 ELSE CHOOSE m \in open : \A m2 \in open : m2 <= m

\* a change marker written for a block wrapper: a visible ins or del Start
\* followed at once by the Start of a p or h1-h6
wraps_block(evs, n) ==
  /\ n < Len(evs)
  /\ evs[n].t = START /\ evs[n].tag \in {"ins", "del"} /\ ~hidden(evs[n])
  /\ evs[n + 1].t = START /\ evs[n + 1].tag \in BLOCK_WRAPPER_TAGS

synthetic_li(e, marker) ==
  /\ e.t = START /\ e.tag = "li"
  /\ has_class(e.attrs, IF marker = "del" THEN "tagdiff_deleted" ELSE "tagdiff_added")

block_inverted(evs, n) ==
  LET be == closer(evs, n + 1)
      up == innermost_open(evs, n)
  IN  /\ be > 0 /\ be < Len(evs)
      /\ evs[be + 1].t = END /\ evs[be + 1].tag = evs[n].tag
      /\ closer(evs, n) = be + 1
      /\ ~(up > 0 /\ evs[up].tag \in {"ul", "ol"})
      /\ (up > 1 /\ evs[up].tag = "li" /\ synthetic_li(evs[up], evs[n].tag)
            /\ up = n - 1 /\ innermost_open(evs, up) > 0
            /\ evs[innermost_open(evs, up)].tag \in {"ul", "ol"}) =>
           /\ be + 2 <= Len(evs)
           /\ evs[be + 2].t = END /\ evs[be + 2].tag = "li"
           /\ closer(evs, up) = be + 2

\* C14: block wrapper inversion.  In the stream the differ wrote, a change
\* marker opened for a p or h1-h6 is closed right after the End of that block:
\* Start(del/ins), Start(block), content, End(block), End(del/ins).  The
\* marker is never opened directly under a ul or ol: there a synthetic li
\* marked tagdiff_deleted/tagdiff_added is opened just before the marker and
\* closed just after the marker's End.
C14_BlockWrapperInversion ==
  pc = "merge" =>
    \A n \in 1..Len(d.result) :
      wraps_block(d.result, n) => block_inverted(d.result, n)

\* C15: line breaks.  In the stream the differ wrote, the line-break marker of
\* a deleted br stands in Start(del), marker, Start(br), End(br), End(del);
\* the marker of an inserted br stands alone in an ins that is followed by the
\* br element, outside the ins.  The End of the br is written once: every br
\* Start in the stream is followed at once by its End.
C15_LineBreaks ==
  pc = "merge" =>
    LET out == d.result
        is(n, t, tag) == n >= 1 /\ n <= Len(out) /\ out[n].t = t /\ out[n].tag = tag
    IN  /\ \A n \in 1..Len(out) :
             (out[n].t = TEXT /\ out[n].txt = <<linebreak_marker>>) =>
               \/ /\ is(n - 1, START, "del")
                  /\ is(n + 1, START, "br") /\ is(n + 2, END, "br")
                  /\ is(n + 3, END, "del")
               \/ /\ is(n - 1, START, "ins") /\ is(n + 1, END, "ins")
                  /\ is(n + 2, START, "br") /\ is(n + 3, END, "br")
        /\ \A n \in 1..Len(out) :
             is(n, START, "br") => is(n + 1, END, "br")

\* ------------------------------------------- properties of the inline wrappers
\* evs is the wrapper div around one text node
plain_doc(evs) ==
  /\ Len(evs) = 3 /\ evs[2].t = TEXT

\* evs is the wrapper div around one inline wrapper with a visual attribute
\* around one text node
wrapped_doc(evs) ==
  /\ Len(evs) = 5
  /\ evs[2].t = START /\ evs[2].tag \in INLINE_FORMATTING_TAGS
  /\ has_visual_attrs(evs[2].attrs)
  /\ evs[3].t = TEXT
  /\ evs[4].t = END /\ evs[4].tag = evs[2].tag

\* out shows the text once, inside `tag` marked tagdiff_replaced with
\* data-old-tag = old_tag, and holds no ins and no del
toggled(out, tag, old_tag, text) ==
  /\ Len(out) = 5
  /\ out[2].t = START /\ out[2].tag = tag
  /\ has_class(out[2].attrs, "tagdiff_replaced")
  /\ attrs_get(out[2].attrs, "data-old-tag") = old_tag
  /\ out[3] = TextEv(text)
  /\ out[4] = EndEv(tag)

\* C16: visual wrapper toggle without duplication.  Plain text against the
\* same text (up to whitespace) in one inline wrapper with a visual attribute
\* gives the new wrapper marked tagdiff_replaced with data-old-tag="none"
\* around the text, once; the wrapper against the plain text gives a span
\* marked tagdiff_replaced with data-old-tag=<tag> around the new text, once;
\* there is no ins and no del.
C16_WrapperToggle ==
  pc = "done" =>
    /\ (/\ plain_doc(old_events) /\ wrapped_doc(new_events)
        /\ collapse_ws(old_events[2].txt) = collapse_ws(new_events[3].txt)) =>
         toggled(result, new_events[2].tag, "none", new_events[3].txt)
    /\ (/\ wrapped_doc(old_events) /\ plain_doc(new_events)
        /\ collapse_ws(old_events[3].txt) = collapse_ws(new_events[2].txt)) =>
         toggled(result, "span", old_events[2].tag, new_events[2].txt)

\* ---------------------------------------------- properties of Start equality
starts_of(evs, tag) == {n \in 1..Len(evs) : evs[n].t = START /\ evs[n].tag = tag}

\* the Start with these attributes carries nothing the emitter adds for a
\* change: no tagdiff_replaced, no data-old-* attribute, no diff id
no_change_mark(attrs) ==
  /\ ~has_class(attrs, "tagdiff_replaced")
  /\ \A i \in 1..Len(attrs) :
       attrs[i][1] \notin {"data-old-style", "data-old-class", "data-old-src",
                           "data-old-href", "data-old-ref", "data-old-data-ref",
                           "data-old-tag", diff_id_attr}

\* C17: attribute order and style formatting are irrelevant for equality.
\* When the one Start of a tag in the old document and the one Start of that
\* tag in the new document are equal after normalisation (attribute order
\* ignored, style values normalised), the emitter treats them as unchanged:
\* unless the element is written as deleted or added as a whole, the Start
\* it writes carries no tagdiff_replaced, no data-old-* attribute and no diff
\* id.
C17_NormalizedStartsUnchanged ==
  pc = "done" =>
    \A o \in 1..Len(old_events), n \in 1..Len(new_events) :
      (/\ old_events[o].t = START /\ new_events[n].t = START
       /\ old_events[o].tag = new_events[n].tag
       /\ starts_of(old_events, old_events[o].tag) = {o}
       /\ starts_of(new_events, new_events[n].tag) = {n}
       /\ attrs_equal_normalized(old_events[o].attrs, new_events[n].attrs)) =>
        \A r \in 1..Len(result) :
          (/\ result[r].t = START /\ result[r].tag = new_events[n].tag
           /\ ~has_class(result[r].attrs, "tagdiff_added")
           /\ ~has_class(result[r].attrs, "tagdiff_deleted")) =>
            no_change_mark(result[r].attrs)

\* ------------------------------------------------------- properties of merge
\* C18: merge idempotence.  Merging a merged stream changes nothing:
\* merge(merge(E)) = merge(E); the stream the loop has built at its end is
\* merge(E).
C18_MergeIdempotent ==
  LET m == merge_adjacent_change_tags(old_events)
  IN  /\ merge_adjacent_change_tags(m) = m
      /\ pc = "merged" => result = m

C18_Witness ==
  /\ pc = "merged"
  /\ balanced(old_events)
  /\ Len(old_events) = MaxStream
  /\ Len(result) = 2
  /\ diff_id_of(result[1]) # ""

\* the merge as the rule states it: the Start of an ins or del that directly
\* follows the End of one is dropped together with that End exactly when the
\* element that was closed and the one that opens both have no attributes, or
\* both carry the same diff id
stated_merge_event(out_events, e) ==
  LET lname == qname_localname(e.tag)
      adjacent == /\ e.t = START /\ lname \in {"ins", "del"} /\ out_events # <<>>
                  /\ Last(out_events).t = END
                  /\ qname_localname(Last(out_events).tag) = lname
      start_idx == find_matching_start_index(out_events, lname,
                                             Len(out_events) - 1, 0)
      closed == out_events[start_idx + 1]
      both == /\ start_idx >= 0
              /\ \/ closed.attrs = <<>> /\ e.attrs = <<>>
                 \/ /\ diff_id_of(e) # ""
                    /\ diff_id_of(closed) = diff_id_of(e)
  IN  IF adjacent /\ both THEN Front(out_events) ELSE Append(out_events, e)

RECURSIVE stated_merge(_, _, _)
stated_merge(events, i, out_events) ==
  IF i > Len(events) THEN out_events
  ELSE stated_merge(events, i + 1, stated_merge_event(out_events, events[i]))

\* C20: merge removes an adjacent End(X), Start(X) pair, X ins or del, exactly
\* when both elements have no attributes or both carry the same diff id;
\* every other pair is left as it is.
C20_MergeExactlyWhen ==
  (pc = "merged" /\ balanced(old_events)) =>
    result = stated_merge(old_events, 1, <<>>)

\* --------------------------------------------------- properties of diff_text
\* the markers among the events evs: <<tag, id>> of every ins or del Start
RECURSIVE markers_of(_)
markers_of(evs) ==
  IF evs = <<>> THEN <<>>
  ELSE (IF Head(evs).t = START /\ Head(evs).tag \in {"ins", "del"}
        THEN <<<<Head(evs).tag, diff_id_of(Head(evs))>>>> ELSE <<>>)
       \o markers_of(Tail(evs))

\* the step from st to st2 closes a changed region: it flushes what is pending
closes_region(st, st2) ==
  LET fresh == ToString(st.d.diff_id_state + 1)
      out == markers_of(written(st.d, st2.d))
  IN  /\ (st.pending_del # <<>> /\ st.pending_ins # <<>>) =>
           /\ out = << <<"del", fresh>>, <<"ins", fresh>> >>
           /\ st2.d.diff_id_state = st.d.diff_id_state + 1
      /\ (st.pending_del # <<>> /\ st.pending_ins = <<>>) =>
           /\ out = << <<"del", fresh>> >>
           /\ st2.d.diff_id_state = st.d.diff_id_state + 1
      /\ (st.pending_del = <<>> /\ st.pending_ins # <<>>) =>
           /\ out = << <<"ins", fresh>> >>
           /\ st2.d.diff_id_state = st.d.diff_id_state + 1
      /\ (st.pending_del = <<>> /\ st.pending_ins = <<>>) =>
           /\ out = <<>>
           /\ st2.d.diff_id_state = st.d.diff_id_state

\* C19: in diff_text a changed region is closed by an equal opcode or by the
\* end of the text.  Closing it emits, when deleted and inserted tokens are
\* both pending, exactly one del followed by exactly one ins under one newly
\* allocated diff id; when one side is pending, exactly one marker with a
\* newly allocated id of its own.  Nothing pending is carried across an equal
\* opcode and nothing is left pending at the end; a step that closes no region
\* emits no marker.
C19_ChangedRegions ==
  [][/\ (pc = "text" /\ k' = k + 1 /\ opcodes[k + 1].tag = "equal") =>
          /\ closes_region(w, w')
          /\ w'.pending_del = <<>> /\ w'.pending_ins = <<>>
     /\ (pc = "text" /\ pc' = "text_done") =>
          /\ closes_region(w, w')
          /\ w'.pending_del = <<>> /\ w'.pending_ins = <<>>
     /\ (pc = "text" /\ k' = k + 1 /\ opcodes[k + 1].tag # "equal") =>
          /\ markers_of(written(w.d, w'.d)) = <<>>
          /\ w'.d.diff_id_state = w.d.diff_id_state]_vars

C19_Witness ==
  /\ pc = "text_done"
  /\ markers_of(w.d.result) = << <<"del", "1">>, <<"ins", "1">>, <<"del", "2">> >>

\* ------------------------------------------- properties of junk suppression
Thresholds == 0..3

\* the stated rule: a block of length L goes when L < min(t, size / 4), the
\* division not rounded; over the integers, when 4 L < min(4 t, size)
stated_keep(m, size, t) == m.size = 0 \/ 4 * m.size >= Min(4 * t, size)

stated_matching_blocks(a, b, t) ==
  LET size == Min(Len(a), Len(b))
      keep(m) == stated_keep(m, size, t)
  IN  SelectSeq(get_matching_blocks(a, b), keep)

\* C21: for the token lists a and b of the two texts and every threshold t, a
\* matching block of length L is discarded exactly when L is below
\* min(t, min(len(a), len(b)) / 4), the division not rounded down; a block as
\* long as that bound is kept, and the sentinel of length 0 is always kept.
C21_JunkSuppression ==
  (pc = "text" /\ k = 0) =>
    \A t \in Thresholds :
      insensitive_matching_blocks(old_tokens, new_tokens, t)
        = stated_matching_blocks(old_tokens, new_tokens, t)

\* ------------------------------------- properties of whitespace-only changes
\* old and new are the same text but for one run of spaces, m long in old and
\* q long in new, after a common part of pl characters
ws_run(old, new, pl, m, q) ==
  /\ m # q
  /\ pl + m <= Len(old) /\ pl + q <= Len(new)
  /\ Len(old) - m = Len(new) - q
  /\ SubSeq(old, 1, pl) = SubSeq(new, 1, pl)
  /\ \A i \in (pl + 1)..(pl + m) : old[i] = " "
  /\ \A i \in (pl + 1)..(pl + q) : new[i] = " "
  /\ SubSeq(old, pl + m + 1, Len(old)) = SubSeq(new, pl + q + 1, Len(new))
  /\ (pl = 0 \/ old[pl] # " ")
  /\ (pl + m = Len(old) \/ old[pl + m + 1] # " ")

ws_runs(old, new) ==
  {r \in (0..Len(old)) \X (1..Len(old)) \X (1..Len(new)) :
     ws_run(old, new, r[1], r[2], r[3])}

\* the characters of the events evs, each with the marker it sits in ("" for
\* none), the visible space of a marker read as the space it shows
RECURSIVE labelled(_, _)
labelled(evs, kind) ==
  IF evs = <<>> THEN <<>>
  ELSE LET e == Head(evs)
       IN  IF e.t = START /\ e.tag \in {"ins", "del"} THEN labelled(Tail(evs), e.tag)
           ELSE IF e.t = END /\ e.tag \in {"ins", "del"} THEN labelled(Tail(evs), "")
           ELSE IF e.t = TEXT
           THEN [i \in 1..Len(e.txt) |->
                   <<kind, IF e.txt[i] = NBSP THEN " " ELSE e.txt[i]>>]
                \o labelled(Tail(evs), kind)
           ELSE labelled(Tail(evs), kind)

\* the stated output for a run r of ws_runs: the longer text, the surplus
\* spaces at the end of the run in one marker
surplus_marked(old, new, r) ==
  LET pl == r[1]
      m == r[2]
      q == r[3]
      long == IF m > q THEN old ELSE new
      tag == IF m > q THEN "del" ELSE "ins"
      lo == pl + Min(m, q)
      hi == pl + Max(m, q)
  IN  [i \in 1..Len(long) |-> <<IF i > lo /\ i <= hi THEN tag ELSE "", long[i]>>]

\* C22: when old and new text are the same but for one run of spaces of another
\* length, diff_text leaves every other token unmarked, keeps the common
\* spaces of the run unmarked and writes one marker holding the surplus
\* spaces: a del and no ins when spaces went, an ins and no del when spaces
\* came.
C22_WhitespaceOnlyChange ==
  pc = "text_done" =>
    \A r \in ws_runs(old_events[1].txt, new_events[1].txt) :
      /\ labelled(w.d.result, "")
           = surplus_marked(old_events[1].txt, new_events[1].txt, r)
      /\ Len(markers_of(w.d.result)) = 1
      /\ markers_of(w.d.result)[1][1] = (IF r[2] > r[3] THEN "del" ELSE "ins")

\* ------------------------------------- properties of the specialised rewriters
\* the event ranges the rewriters are tried on in a state: the ranges of the
\* opcode at k, and the two documents inside the wrapper; a pair is <<old, new>>
rewriter_inputs ==
  {<<Slice(old_events, 1, Len(old_events) - 1),
     Slice(new_events, 1, Len(new_events) - 1)>>}
  \cup (IF pc = "loop" /\ k < Len(opcodes)
        THEN {<<concat_events(SubSeq(old_atoms, opcodes[k + 1].i1 + 1, opcodes[k + 1].i2)),
                concat_events(SubSeq(new_atoms, opcodes[k + 1].j1 + 1, opcodes[k + 1].j2))>>}
        ELSE {})

\* the opcodes the inner event differ walks for a pair of ranges
inner_opcodes(old, new) ==
  normalize_opcodes(call("get_opcodes", <<old, new>>), old, new)

\* what the four rewriters report for the differ dd and the pair p
rewriter_reports(dd, p) ==
  {call("try_inline_wrapper_to_plain", <<dd, p[1], p[2]>>),
   try_visual_wrapper_toggle_without_dup(dd, p[1], p[2]),
   diff_inline_formatting(dd, p[1], p[2])}
  \cup {call("handle_table_cell_wrapper_pattern",
             <<dd, p[1], p[2], inner_opcodes(p[1], p[2]), j>>) :
          j \in 0..(Len(inner_opcodes(p[1], p[2])) - 1)}

\* C23: a specialised rewriter never emits partial output and then fails: when
\* try_inline_wrapper_to_plain, try_visual_wrapper_toggle_without_dup,
\* diff_inline_formatting or the table-cell wrapper pattern handler reports not
\* handled, the output, the tag stack, the context, skip_end_for,
\* wrap_change_end_for, style_del_buffer and the diff-id counter are as before
\* the call.
C23_NotHandledLeavesNoTrace ==
  pc \in {"loop", "merge"} =>
    \A p \in rewriter_inputs :
      \A r \in rewriter_reports(d, p) : ~r.ok => r.d = d

\* a differ that has written output and allocated an id, tried on a pair
\* where the rewriters get past their first tests and then give up: an inline
\* wrapper with visual attributes against a text that is not its text
C23_Witness ==
  /\ pc = "merge" /\ d.result # <<>> /\ d.diff_id_state > 0
  /\ \E p \in rewriter_inputs :
       /\ Len(p[1]) > 2 /\ p[1][1].t = START
       /\ qname_localname(p[1][1].tag) \in INLINE_FORMATTING_TAGS
       /\ has_visual_attrs(p[1][1].attrs)
       /\ Len(p[2]) = 1 /\ p[2][1].t = TEXT
       /\ ~try_visual_wrapper_toggle_without_dup(d, p[1], p[2]).ok
       /\ ~diff_inline_formatting(d, p[1], p[2]).ok

\* ------------------------------- properties of the paragraphs-to-list rewriter
\* an event without its attributes
shape(e) == <<e.t, e.tag, e.txt>>

\* the events of evs inside a del (keep_del) or outside every del (~keep_del);
\* depth counts the del elements open
RECURSIVE del_part(_, _, _)
del_part(evs, depth, keep_del) ==
  IF evs = <<>> THEN <<>>
  ELSE LET e == Head(evs)
       IN  IF e.t = START /\ e.tag = "del" THEN del_part(Tail(evs), depth + 1, keep_del)
           ELSE IF e.t = END /\ e.tag = "del"
           THEN del_part(Tail(evs), Max(depth - 1, 0), keep_del)
           ELSE (IF (depth > 0) = keep_del THEN <<shape(e)>> ELSE <<>>)
                \o del_part(Tail(evs), depth, keep_del)

\* sub occurs in seq, in order
RECURSIVE is_subsequence(_, _)
is_subsequence(sub, seq) ==
  IF sub = <<>> THEN TRUE
  ELSE IF seq = <<>> THEN FALSE
  ELSE IF Head(sub) = Head(seq) THEN is_subsequence(Tail(sub), Tail(seq))
  ELSE is_subsequence(sub, Tail(seq))

shapes(evs) == [i \in 1..Len(evs) |-> shape(evs[i])]

\* C24: no content is dropped by the paragraphs-to-list rewriter: when it
\* handles the opcodes from k up to the opcode holding the list End, every
\* old-side atom of those opcodes is carried in the hidden revert payload or
\* emitted as deleted, and every new-side atom of those opcodes, the atoms that
\* share the first range with the list Start included, is in the visible
\* output.
C24_ListRewriterKeepsContent ==
  [][(pc = "loop" /\ iter' = iter + 1 /\ branch' = "forward_list") =>
       LET out == written(d, d')
           i1 == opcodes[k + 1].i1
           i2 == opcodes[k'].i2
           j1 == opcodes[k + 1].j1
           j2 == opcodes[k'].j2
       IN  /\ \A i \in (i1 + 1)..i2 :
                is_subsequence(shapes(old_atoms[i].events), del_part(out, 0, TRUE))
           /\ \A j \in (j1 + 1)..j2 :
                is_subsequence(shapes(new_atoms[j].events), del_part(out, 0, FALSE))]_vars

\* ------------------------------------- properties of the row-wise table diff
\* the element structure of evs: the Start and End tags in order, the change
\* markers left out
RECURSIVE structure(_)
structure(evs) ==
  IF evs = <<>> THEN <<>>
  ELSE (IF Head(evs).t \in {START, END} /\ Head(evs).tag \notin {"ins", "del"}
        THEN <<<<Head(evs).t, Head(evs).tag>>>> ELSE <<>>)
       \o structure(Tail(evs))

\* the two documents are a table each, the same but for the text of the cells
tables_differ_in_cells ==
  /\ Len(old_events) > 2 /\ old_events[2].t = START /\ old_events[2].tag = "table"
  /\ closer(old_events, 2) = Len(old_events) - 1
  /\ old_events # new_events
  /\ Len(old_events) = Len(new_events)
  /\ \A i \in 1..Len(old_events) :
       \/ old_events[i] = new_events[i]
       \/ old_events[i].t = TEXT /\ new_events[i].t = TEXT

\* C25: the row-wise table diff keeps the structure of the new table: the
\* events of the new table outside the cells of its rows, the tbody wrapper
\* among them, are written, so that when old and new table differ only inside
\* cells the output without its change markers has the element structure of
\* the new table.
C25_TableStructurePreserved ==
  (pc = "done" /\ tables_differ_in_cells) =>
    structure(result) = structure(new_events)

\* ------------------------------------------------------ properties of replace
\* how many of the shapes ss are the Start or End (t) of tag
RECURSIVE count_tag(_, _, _)
count_tag(ss, t, tag) ==
  IF ss = <<>> THEN 0
  ELSE (IF Head(ss)[1] = t /\ Head(ss)[2] = tag THEN 1 ELSE 0)
       + count_tag(Tail(ss), t, tag)

\* no Start and no End among the events out, the change markers apart, is
\* written more often than the two ranges together hold it
within_ranges(out, old_range, new_range) ==
  LET ss == shapes(out)
  IN  \A i \in 1..Len(ss) :
        (ss[i][1] \in {START, END} /\ ss[i][2] \notin {"ins", "del"}) =>
          count_tag(ss, ss[i][1], ss[i][2])
            <= count_tag(shapes(old_range), ss[i][1], ss[i][2])
               + count_tag(shapes(new_range), ss[i][1], ss[i][2])

\* C26: replace(old_start, old_end, new_start, new_end) reads and emits only
\* old events with index in [old_start, old_end) and new events with index in
\* [new_start, new_end); the unpaired tail handed to delete or insert ends at
\* old_end or new_end, so that no event of a later opcode is emitted by the
\* call.  On a step that hands a replace opcode to the event differ, whose
\* first opcode is a replace: the call replace makes for it on the new differ
\* writes no element event more often than its two ranges together hold it.
C26_ReplaceStaysInRange ==
  [][(pc = "loop" /\ iter' = iter + 1 /\ branch' = "replace" /\ k' = k + 1) =>
       LET top == opcodes[k + 1]
           old == concat_events(SubSeq(old_atoms, top.i1 + 1, top.i2))
           new == concat_events(SubSeq(new_atoms, top.j1 + 1, top.j2))
           op == inner_opcodes(old, new)[1]
           out == call("replace", <<NewDiffer(d.diff_id_state), old, new,
                                    op.i1, op.i2, op.j1, op.j2>>).result
       IN  (/\ d' = run_event_differ(d, old, new)
            /\ ~should_force_visual_replace(old, new)
            /\ inner_opcodes(old, new) # <<>>
            /\ op.tag = "replace") =>
             within_ranges(out, PySlice(old, op.i1, op.i2), PySlice(new, op.j1, op.j2))]_vars

\* ---------------------------------------------------- properties of unchanged
\* the differ of the event differ over old and new when it comes to its
\* opcode n (1-based), started with the diff-id counter id_state
differ_before(old, new, id_state, n) ==
  process_events_loop(NewDiffer(id_state), old, new,
                      SubSeq(inner_opcodes(old, new), 1, n - 1), 0)

\* no Start and no End of a change marker among the events evs
no_marker_event(evs) ==
  \A i \in 1..Len(evs) :
    ~(evs[i].t \in {START, END} /\ evs[i].tag \in {"ins", "del"})

\* C27: unchanged content is never marked: while the events of an equal range
\* go through unchanged() the context is None at every Text event, and None
\* again when the call returns; an End event of the range that pops a pending
\* wrap_change_end_for entry, left by an earlier delete or insert range, puts
\* no ins/del context back in force and closes no marker opened outside the
\* range.  On a step that hands a replace opcode to the event differ, for every
\* equal opcode of the event differ: unchanged() opens no marker, closes no
\* marker and returns with the context it was called with.
C27_UnchangedNeverMarked ==
  [][(pc = "loop" /\ iter' = iter + 1 /\ branch' = "replace" /\ k' = k + 1) =>
       LET top == opcodes[k + 1]
           old == concat_events(SubSeq(old_atoms, top.i1 + 1, top.i2))
           new == concat_events(SubSeq(new_atoms, top.j1 + 1, top.j2))
           ops == inner_opcodes(old, new)
       IN  (/\ d' = run_event_differ(d, old, new)
            /\ ~should_force_visual_replace(old, new)) =>
             \A n \in 1..Len(ops) :
               LET before == differ_before(old, new, d.diff_id_state, n)
                   after == unchanged(before, old, ops[n].i1, ops[n].i2)
               IN  (ops[n].tag = "equal" /\ Ready(before)) =>
                     /\ no_marker_event(written(before, after))
                     /\ after.context = NoCtx]_vars

\* ------------------------------------------------- properties of the atomizer
\* C28: the events of the atoms returned by atomize_events, concatenated in
\* order, are exactly the input event list: the same events, in the same order
\* and as many of them; no event is dropped, duplicated, split or reordered.
C28_AtomsConcatToInput ==
  /\ concat_events(old_atoms) = old_events
  /\ concat_events(new_atoms) = new_events

\* ------------------------------------------- properties of the end of a diff
\* the tag stack and the three helper stacks of the differ dd are empty
stacks_empty(dd) ==
  /\ dd.stack = <<>>
  /\ dd.skip_end_for = <<>>
  /\ dd.wrap_change_end_for = <<>>
  /\ dd.style_del_buffer = <<>>

\* C29: at the end of every diff operation on well-formed input, after
\* process() or process_events() has called leave_all, the tag stack and the
\* helper stacks skip_end_for, wrap_change_end_for and style_del_buffer are
\* empty, so that no event routed into a style buffer is left in it.  For
\* process(): the differ after LeaveAll; for process_events(): the event
\* differ a replace step runs on the ranges of its opcode.
C29_StacksEmptyAtEnd ==
  [][/\ (pc = "loop" /\ pc' = "merge") => stacks_empty(d')
     /\ (pc = "loop" /\ iter' = iter + 1 /\ branch' = "replace" /\ k' = k + 1) =>
          LET top == opcodes[k + 1]
              old == concat_events(SubSeq(old_atoms, top.i1 + 1, top.i2))
              new == concat_events(SubSeq(new_atoms, top.j1 + 1, top.j2))
          IN  d' = run_event_differ(d, old, new) =>
                stacks_empty(call("process_events", <<old, new, d.diff_id_state>>))]_vars

\* --------------------------------------------- properties of the style buffer
\* the flush of a style buffer in evs at i: a del at i and an ins right after
\* it that hold the same events, at least one; the value is the content
flushed_at(evs, i) ==
  LET j == closer(evs, i)
      l == closer(evs, j + 1)
  IN  IF /\ evs[i].t = START /\ evs[i].tag = "del"
         /\ j > i + 1 /\ j < Len(evs)
         /\ evs[j + 1].t = START /\ evs[j + 1].tag = "ins"
         /\ l > j + 1
         /\ SubSeq(evs, i + 1, j - 1) = SubSeq(evs, j + 2, l - 1)
      THEN SubSeq(evs, i + 1, j - 1)
      ELSE <<>>

\* C30: a style-only buffer opened by enter_mark_replaced for an element is
\* flushed, its content written once in del and once in ins, only at the End
\* event that closes that element, not at the End of a nested element of the
\* same name; hence each of the two copies is a balanced event sequence
\* holding the complete content of the element.
C30_StyleBufferFlushedAtOwnEnd ==
  pc = "merge" =>
    \A i \in 1..Len(d.result) : balanced(flushed_at(d.result, i))

====
